---- MODULE Spec2Model ----
(***************************************************************************)
(* A model of gabrielwolf/waveform-visualizer.                             *)
(*                                                                         *)
(* Two parts are modelled:                                                 *)
(*   - WaveformVisualizer.computeChannelLayout, a pure function            *)
(*     (src/unnamed/part_003, identical in src/unnamed/part_004);          *)
(*   - GpuContextManager, the process-wide registry of the GPU device and  *)
(*     of the canvas format / colour space.  The repository carries two    *)
(*     revisions of this class: src/gpuContextManager.js, which probes the *)
(*     format on every configureCanvas call, and the one at the head of    *)
(*     src/unnamed/part_006, which probes once on a temporary canvas.      *)
(*     The variable `revision` says which of the two is running; it is     *)
(*     chosen in Init and never changes.                                   *)
(***************************************************************************)
EXTENDS Integers, Sequences, FiniteSets, TLC

VARIABLES
    revision,      \* which GpuContextManager source is running
    host,          \* the browser: navigator.gpu, user agent, preferred canvas format
    matchesHdr,    \* window.matchMedia("(dynamic-range: high)").matches
    context,       \* GpuContextManager.#context (NoContext models null)
    listeners,     \* GpuContextManager.#listeners, a Set in insertion order
    canvases,      \* GpuContextManager.#canvases, a Set in insertion order
    calls,         \* configureDevice calls suspended at requestAdapter / requestDevice
    log,           \* what the last operation did, in order (configure calls, callbacks)
    last,          \* the last operation: its name, argument, outcome and the context before it
    height,        \* computeChannelLayout: argument height
    channelCount,  \* computeChannelLayout: argument channelCount
    layout,        \* computeChannelLayout: the value returned for (height, channelCount)
    inst,          \* the private fields of one WaveformVisualizer instance
    gpuBuffers,    \* every GPUBuffer the instance created: how often destroy() was called on it
    gpuData,       \* what every GPUBuffer the instance created holds, the buffers its
                   \* bind groups hold, and the size of its canvas
    pending,       \* the host's scheduled callbacks: requestAnimationFrame, the resize setTimeout
    orch,          \* the FrameOrchestratorLike collaborator: what it holds under
                   \* the participant id of the instance's track
    statics,       \* WaveformVisualizer.BOOST and WaveformVisualizer.OFFSET
    tally,         \* how often dispose, unregister, offReconfigure, register and submit ran
    ilast,         \* the last operation on the instance and the instance before it
    kernel,        \* one invocation of the compute kernel: its inputs and what it wrote
    surfaces       \* two instances on one registry: what each canvas was last
                   \* configured with, and each instance's cached format, colour
                   \* space, display pipeline target and dirty flag

vars == <<revision, host, matchesHdr, context, listeners, canvases,
          calls, log, last, height, channelCount, layout,
          inst, gpuBuffers, gpuData, pending, orch, statics, tally, ilast, kernel, surfaces>>

instanceVars == <<inst, gpuBuffers, gpuData, pending, orch, statics, tally, ilast>>

registryVars == <<revision, host, matchesHdr, context, listeners, canvases,
                  calls, log, last, surfaces>>

layoutVars == <<height, channelCount, layout, kernel>>

(***************************************************************************)
(* Bounds of the model.                                                    *)
(***************************************************************************)
MaxHeight == 40

MaxCalls == 2

(***************************************************************************)
(* computeChannelLayout                                                    *)
(***************************************************************************)
MaxChannels == 16

NoLayout == [offsets |-> <<>>, heights |-> <<>>]

\* const baseHeight = Math.floor(height / channelCount);
baseHeightMutCeil(h, c) == (h + c - 1) \div c

baseHeight(h, c) == h \div c

\* const remainder = height % channelCount;
remainder(h, c) == h % c

\* A walk that serves the right-of-center channel before the left one.
RECURSIVE extraLoopMutRightFirst(_, _, _, _)
extraLoopMutRightFirst(c, remaining, offset, extra) ==
    IF ~(remaining > 0) THEN extra
    ELSE LET leftIndex  == (c \div 2) - 1 - offset
             rightIndex == (c \div 2) + offset
             takeRight  == rightIndex < c /\ remaining > 0
             extra1     == IF takeRight THEN [extra EXCEPT ![rightIndex] = 1] ELSE extra
             remaining1 == IF takeRight THEN remaining - 1 ELSE remaining
             takeLeft   == leftIndex >= 0 /\ remaining1 > 0
             extra2     == IF takeLeft THEN [extra1 EXCEPT ![leftIndex] = 1] ELSE extra1
             remaining2 == IF takeLeft THEN remaining1 - 1 ELSE remaining1
         IN  IF remaining1 = 0 THEN extra1
             ELSE extraLoopMutRightFirst(c, remaining2, offset + 1, extra2)

\* One evaluation of the while loop's condition and body; `extra` is
\* extraForChannel as a function on 0..c-1.
RECURSIVE extraLoop(_, _, _, _)
extraLoop(c, remaining, offset, extra) ==
    IF ~(remaining > 0) THEN extra
    ELSE LET leftIndex  == (c \div 2) - 1 - offset
             rightIndex == (c \div 2) + offset
             takeLeft   == leftIndex >= 0 /\ remaining > 0
             extra1     == IF takeLeft THEN [extra EXCEPT ![leftIndex] = 1] ELSE extra
             remaining1 == IF takeLeft THEN remaining - 1 ELSE remaining
             takeRight  == rightIndex < c /\ remaining1 > 0
             extra2     == IF takeRight THEN [extra1 EXCEPT ![rightIndex] = 1] ELSE extra1
             remaining2 == IF takeRight THEN remaining1 - 1 ELSE remaining1
         IN  IF remaining1 = 0 THEN extra1
             ELSE extraLoop(c, remaining2, offset + 1, extra2)

extraForChannel(h, c) ==
    extraLoop(c, remainder(h, c), 0, [i \in 0..(c - 1) |-> 0])

\* The for loop that accumulates offsets and heights; i is the loop index,
\* acc the running offset.  The arrays are returned as sequences, so
\* offsets[i] of the code is offsets[i + 1] here.
RECURSIVE accumulate(_, _, _, _, _, _)
accumulate(h, c, i, acc, offsets, heights) ==
    IF ~(i < c) THEN [offsets |-> offsets, heights |-> heights]
    ELSE LET hi == baseHeight(h, c) + extraForChannel(h, c)[i]
         IN  accumulate(h, c, i + 1, acc + hi, Append(offsets, acc), Append(heights, hi))

computeChannelLayout(h, c) == accumulate(h, c, 0, 0, <<>>, <<>>)

(***************************************************************************)
(* GpuContextManager: values                                               *)
(***************************************************************************)
Revisions == {"gpuContextManager.js", "part_006"}

Canvases == {"A", "B"}

Callbacks == {"cb1", "cb2"}

\* class GpuContext.  NoContext models #context === null; a field the
\* constructor received no argument for holds "undefined".  Every GPUDevice
\* is written "device": which GpuContext object the registry holds is told
\* by last.created, set by the operation that built a new one.
NoContext ==
    [device |-> "null", format |-> "null", colorSpace |-> "null",
     internalFormat |-> "null", isHighDynamicRange |-> "undefined"]

GpuContext(device, format, colorSpace, internalFormat, isHighDynamicRange) ==
    [device |-> device, format |-> format, colorSpace |-> colorSpace,
     internalFormat |-> internalFormat, isHighDynamicRange |-> isHighDynamicRange]

Bool2Str(b) == IF b THEN "true" ELSE "false"

\* The descriptors a GPUCanvasContext.configure call can carry: a format and
\* a colour space, "default" when the descriptor names none (WebGPU then
\* uses srgb).
Formats == {"rgba16float", "bgra8unorm", "rgba8unorm"}

ColorSpaces == {"rec2100-hlg", "display-p3", "srgb"}

Descriptors == Formats \X (ColorSpaces \cup {"default"})

\* What a surface takes.  configure throws for every other descriptor.
AcceptAll == Descriptors

Accept8bit == {d \in Descriptors : d[1] = "rgba8unorm"}

AcceptPlainOnly == {<<"rgba8unorm", "default">>}

AcceptNone == {}

AcceptProfiles == {AcceptAll, Accept8bit, AcceptPlainOnly, AcceptNone}

\* The browsers: is navigator.gpu there, does the user agent look like
\* WebKit, what does getPreferredCanvasFormat answer.
\* The dataset files a fetch can be answered with: mean.bin and peak.bin at
\* `${mediaDirectory}/${uuid}/` ("track") and at the default location of
\* #waveformDataMeanUrl and #backgroundDataPeakUrl ("default").
DatasetFiles == {"track", "default"} \X {"mean.bin", "peak.bin"}

Hosts ==
    { [gpu |-> TRUE,  webKit |-> FALSE, preferredFormat |-> "bgra8unorm", served |-> DatasetFiles],
      [gpu |-> TRUE,  webKit |-> TRUE,  preferredFormat |-> "bgra8unorm", served |-> DatasetFiles],
      [gpu |-> FALSE, webKit |-> FALSE, preferredFormat |-> "bgra8unorm", served |-> DatasetFiles] }

\* What each canvas accepts when a capability change arrives; a canvas the
\* registry does not hold is not asked, and stands as accepting everything.
AcceptanceIn(profiles, cvs) ==
    {a \in [Canvases -> profiles \cup {AcceptAll}] :
        \A c \in Canvases : (\A i \in 1..Len(cvs) : cvs[i] # c) => a[c] = AcceptAll}

AcceptanceOf(cvs) == AcceptanceIn(AcceptProfiles, cvs)

\* One entry of `log`.
Event(type, who, format, colorSpace, ok) ==
    [type |-> type, who |-> who, format |-> format, colorSpace |-> colorSpace, ok |-> ok]

\* An add that does not look for the element first.
SetAddMutAppend(s, x) == Append(s, x)

\* Set.prototype.add / Set.prototype.delete on a Set kept in insertion order.
SetAdd(s, x) == IF \E i \in 1..Len(s) : s[i] = x THEN s ELSE Append(s, x)

SetDelete(s, x) == SelectSeq(s, LAMBDA y : y # x)

Elements(s) == {s[i] : i \in 1..Len(s)}


(***************************************************************************)
(* GpuContextManager: capability probing                                   *)
(***************************************************************************)
\* for (const format of formatFallbacks)
\*     for (const colorSpace of colorSpaceFallbacks)
\* as the sequence of (format, colorSpace) the two loops visit.
LoopPairs(formatFallbacks, colorSpaceFallbacks) ==
    [k \in 1..(Len(formatFallbacks) * Len(colorSpaceFallbacks)) |->
        <<formatFallbacks[((k - 1) \div Len(colorSpaceFallbacks)) + 1],
          colorSpaceFallbacks[((k - 1) % Len(colorSpaceFallbacks)) + 1]>>]

\* A loop that skips nothing.
SkippedMutNothing(pair) == FALSE

\* if (format === "rgba8unorm" && colorSpace === "rec2100-hlg") continue;
Skipped(pair) == pair[1] = "rgba8unorm" /\ pair[2] = "rec2100-hlg"

\* The pairs configure is called with, in order, if every call throws.
Attempted(formatFallbacks, colorSpaceFallbacks) ==
    SelectSeq(LoopPairs(formatFallbacks, colorSpaceFallbacks), LAMBDA pair : ~Skipped(pair))

\* try { context.configure(...); ...; return } catch { }: the position of the
\* first pair whose configure call does not throw, 0 when every call throws.
FirstAccepted(pairs, accepts) ==
    IF \E i \in 1..Len(pairs) : pairs[i] \in accepts
    THEN CHOOSE i \in 1..Len(pairs) :
            pairs[i] \in accepts /\ \A j \in 1..(i - 1) : pairs[j] \notin accepts
    ELSE 0

\* The configure calls the loops make on surface `who`.
ProbeEvents(who, pairs, accepts) ==
    LET hit == FirstAccepted(pairs, accepts)
        n   == IF hit = 0 THEN Len(pairs) ELSE hit
    IN  [i \in 1..n |-> Event("configure", who, pairs[i][1], pairs[i][2], i = hit)]

\* A broadcast that stops after the first subscriber.
NotifyEventsMutFirstOnly(lst, ctx) ==
    [i \in 1..(IF Len(lst) > 0 THEN 1 ELSE 0) |->
        Event("callback", lst[i], ctx.format, ctx.colorSpace, TRUE)]

\* this.#listeners.forEach(callback => callback(this.#context))
NotifyEvents(lst, ctx) ==
    [i \in 1..Len(lst) |-> Event("callback", lst[i], ctx.format, ctx.colorSpace, TRUE)]

\* A fallback that names no colour space.
FallbackPairMutNoColorSpace == <<"rgba8unorm", "null">>

\* const fallbackFormat = "rgba8unorm"; const fallbackColorSpace = "srgb";
FallbackPair == <<"rgba8unorm", "srgb">>

(***************************************************************************)
(* GpuContextManager, revision src/gpuContextManager.js                    *)
(***************************************************************************)
FormatFallbacks == <<"rgba16float", "rgba8unorm">>

ColorSpaceFallbacks == <<"rec2100-hlg", "display-p3", "srgb">>

\* The record of an operation: its name and argument, whether it threw,
\* whether it built a new GpuContext, and #context before it.
Last(op, who, threw, created, before) ==
    [op |-> op, who |-> who, threw |-> threw, created |-> created, before |-> before]

\* A configureCanvas that broadcasts whether or not the pair changed.
ChangedMutAlways(ctx, pair) == TRUE

\* const changed = this.#context.format !== format || this.#context.colorSpace !== colorSpace;
Changed(ctx, pair) == ctx.format # pair[1] \/ ctx.colorSpace # pair[2]

\* configureCanvas(canvas), as a function of the registry before the call and
\* of what the canvas accepts: whether it threw, the context after it, and
\* its configure calls and callbacks.
\* With #context null every `this.#context.device` raises a TypeError: the
\* ones inside the loops are caught, the one of the fallback is not.
configureCanvasResult(canvas, accepts, ctx, lst) ==
    LET pairs      == Attempted(FormatFallbacks, ColorSpaceFallbacks)
        hit        == IF ctx = NoContext THEN 0 ELSE FirstAccepted(pairs, accepts)
        probes     == IF ctx = NoContext THEN <<>> ELSE ProbeEvents(canvas, pairs, accepts)
        fallbackOk == ctx # NoContext /\ <<"rgba8unorm", "default">> \in accepts
        fallback   == IF ctx = NoContext THEN <<>>
                      ELSE <<Event("configure", canvas, "rgba8unorm", "default", fallbackOk)>>
        pair       == IF hit > 0 THEN pairs[hit] ELSE FallbackPair
        ctx1       == [ctx EXCEPT !.format = pair[1], !.colorSpace = pair[2]]
        notify     == IF Changed(ctx, pair) THEN NotifyEvents(lst, ctx1) ELSE <<>>
    IN  IF hit > 0
        THEN [threw |-> FALSE, context |-> ctx1,
              events |-> probes \o notify]
        ELSE IF fallbackOk
        THEN [threw |-> FALSE, context |-> ctx1,
              events |-> probes \o fallback \o notify]
        ELSE [threw |-> TRUE, context |-> ctx,
              events |-> probes \o fallback]

configureCanvas(canvas) ==
    /\ revision = "gpuContextManager.js"
    /\ \E accepts \in AcceptProfiles :
          LET r == configureCanvasResult(canvas, accepts, context, listeners)
          IN  /\ context' = r.context
              /\ canvases' = IF r.threw THEN canvases ELSE SetAdd(canvases, canvas)
              /\ log' = r.events
              /\ last' = Last("configureCanvas", canvas, r.threw, FALSE, context)
    /\ UNCHANGED <<revision, host, matchesHdr, listeners, calls, layoutVars, instanceVars, surfaces>>

\* for (const canvas of this.#canvases) { try { ...configureCanvas(canvas)... } catch { ... } }
\* from the i-th canvas on; st is [context, events] so far.
RECURSIVE reconfigureEach(_, _, _, _, _)
reconfigureEach(i, cvs, acceptsOf, lst, st) ==
    IF i > Len(cvs) THEN st
    ELSE LET canvas == cvs[i]
             r      == configureCanvasResult(canvas, acceptsOf[canvas], st.context, lst)
             st1    == IF r.threw
                       THEN [st EXCEPT !.events =
                                @ \o r.events \o <<Event("failed", canvas, "null", "null", FALSE)>>]
                       ELSE [context |-> r.context,
                             events  |-> st.events \o r.events \o
                                            <<Event("done", canvas, r.context.format,
                                                    r.context.colorSpace, TRUE)>>]
         IN  reconfigureEach(i + 1, cvs, acceptsOf, lst, st1)

\* The "change" listener of the (dynamic-range: high) media query.  Line 91
\* dereferences #context before the null test of line 95.
dynamicRangeChangeHandler(profiles) ==
    /\ revision = "gpuContextManager.js"
    /\ matchesHdr' = ~matchesHdr
    /\ IF context = NoContext
       THEN /\ UNCHANGED context
            /\ log' = <<>>
            /\ last' = Last("change", "", TRUE, FALSE, context)
       ELSE \E acceptsOf \in AcceptanceIn(profiles, canvases) :
              LET ctx1 == [context EXCEPT !.isHighDynamicRange = Bool2Str(~matchesHdr)]
                  st0  == [context |-> ctx1, events |-> NotifyEvents(listeners, ctx1)]
                  st   == reconfigureEach(1, canvases, acceptsOf, listeners, st0)
              IN  /\ context' = st.context
                  /\ log' = st.events
                  /\ last' = Last("change", "", FALSE, FALSE, context)
    /\ UNCHANGED <<revision, host, listeners, canvases, calls, layoutVars, instanceVars>>

dynamicRangeChange == dynamicRangeChangeHandler(AcceptProfiles) /\ UNCHANGED surfaces

(***************************************************************************)
(* GpuContextManager, revision src/unnamed/part_006                        *)
(***************************************************************************)
\* colorSpaceFallbacks / formatFallbacks of #detectBestCanvasConfiguration
DetectColorSpaceFallbacks(h) ==
    IF h.webKit THEN <<"display-p3", "srgb", "rec2100-hlg">>
    ELSE <<"rec2100-hlg", "display-p3", "srgb">>

DetectFormatFallbacks(h) ==
    IF h.webKit THEN <<h.preferredFormat, "bgra8unorm", "rgba8unorm", "rgba16float">>
    ELSE <<"rgba16float", h.preferredFormat, "bgra8unorm", "rgba8unorm">>

\* #detectBestCanvasConfiguration(device) on a temporary canvas that accepts
\* `accepts`: the pair returned and the configure calls made.
detectBestCanvasConfiguration(h, accepts) ==
    LET pairs == Attempted(DetectFormatFallbacks(h), DetectColorSpaceFallbacks(h))
        hit   == FirstAccepted(pairs, accepts)
    IN  [pair   |-> IF hit > 0 THEN pairs[hit] ELSE FallbackPair,
         events |-> ProbeEvents("probe", pairs, accepts)]

\* configureCanvas(canvas): one configure call with the stored pair; nothing
\* is caught.
configureCanvas_p6(canvas) ==
    /\ revision = "part_006"
    /\ \E accepts \in AcceptProfiles :
          LET pair == <<context.format, context.colorSpace>>
              ok   == context # NoContext /\ pair \in accepts
          IN  /\ canvases' = IF ok THEN SetAdd(canvases, canvas) ELSE canvases
              /\ log' = IF context = NoContext THEN <<>>
                        ELSE <<Event("configure", canvas, pair[1], pair[2], ok)>>
              /\ last' = Last("configureCanvas", canvas, ~ok, FALSE, context)
    /\ UNCHANGED <<revision, host, matchesHdr, context, listeners, calls, layoutVars, instanceVars, surfaces>>

\* A handler whose catch block ends the loop over the canvases.
RECURSIVE reconfigureEachMutStop_p6(_, _, _, _)
reconfigureEachMutStop_p6(i, cvs, acceptsOf, st) ==
    IF i > Len(cvs) THEN st
    ELSE LET canvas == cvs[i]
             pair   == <<st.context.format, st.context.colorSpace>>
             ok     == pair \in acceptsOf[canvas]
             call   == Event("configure", canvas, pair[1], pair[2], ok)
         IN  IF ok
             THEN reconfigureEachMutStop_p6(i + 1, cvs, acceptsOf,
                    [st EXCEPT !.events = @ \o <<call, Event("done", canvas, pair[1], pair[2], TRUE)>>])
             ELSE [st EXCEPT !.events = @ \o <<call, Event("failed", canvas, "null", "null", FALSE)>>]

\* for (const canvas of this.#canvases) { try { context.configure(...) } catch { ... } }
RECURSIVE reconfigureEach_p6(_, _, _, _)
reconfigureEach_p6(i, cvs, acceptsOf, st) ==
    IF i > Len(cvs) THEN st
    ELSE LET canvas == cvs[i]
             pair   == <<st.context.format, st.context.colorSpace>>
             ok     == pair \in acceptsOf[canvas]
             call   == Event("configure", canvas, pair[1], pair[2], ok)
             st1    == IF ok
                       THEN [st EXCEPT !.events = @ \o <<call, Event("done", canvas, pair[1], pair[2], TRUE)>>]
                       ELSE [st EXCEPT !.events =
                                @ \o <<call, Event("failed", canvas, "null", "null", FALSE)>>]
         IN  reconfigureEach_p6(i + 1, cvs, acceptsOf, st1)

\* The "change" listener of the (dynamic-range: high) media query.
dynamicRangeChangeHandler_p6(profiles) ==
    /\ revision = "part_006"
    /\ matchesHdr' = ~matchesHdr
    /\ IF context = NoContext
       THEN /\ UNCHANGED context
            /\ log' = <<>>
            /\ last' = Last("change", "", FALSE, FALSE, context)
       ELSE \E probe \in profiles, acceptsOf \in AcceptanceIn(profiles, canvases) :
              LET d    == detectBestCanvasConfiguration(host, probe)
                  ctx1 == [context EXCEPT !.isHighDynamicRange = Bool2Str(~matchesHdr),
                                          !.format = d.pair[1], !.colorSpace = d.pair[2]]
                  st   == reconfigureEach_p6(1, canvases, acceptsOf,
                             [context |-> ctx1, events |-> d.events])
              IN  /\ context' = ctx1
                  /\ log' = st.events \o NotifyEvents(listeners, ctx1)
                  /\ last' = Last("change", "", FALSE, FALSE, context)
    /\ UNCHANGED <<revision, host, listeners, canvases, calls, layoutVars, instanceVars>>

dynamicRangeChange_p6 == dynamicRangeChangeHandler_p6(AcceptProfiles) /\ UNCHANGED surfaces

(***************************************************************************)
(* GpuContextManager.configureDevice, an async function: one action per    *)
(* stretch between two awaits.  `calls` counts the calls suspended at each *)
(* await; at most MaxCalls are in flight at a time.                        *)
(***************************************************************************)
InFlight == calls.adapter + calls.device

\* A configureDevice without the early return.
InitializedMutNever(ctx) == FALSE

\* if (this.#context) return;
Initialized(ctx) == ctx # NoContext

\* Up to `await navigator.gpu.requestAdapter()`; the same lines in both
\* revisions.  last.who tells how the stretch ended.
configureDevice ==
    /\ ~host.gpu \/ Initialized(context) \/ InFlight < MaxCalls
    /\ IF ~host.gpu
       THEN /\ last' = Last("configureDevice", "threw", TRUE, FALSE, context)
            /\ UNCHANGED calls
       ELSE IF Initialized(context)
       THEN /\ last' = Last("configureDevice", "returned", FALSE, FALSE, context)
            /\ UNCHANGED calls
       ELSE /\ last' = Last("configureDevice", "requestAdapter", FALSE, FALSE, context)
            /\ calls' = [calls EXCEPT !.adapter = @ + 1]
    /\ log' = <<>>
    /\ UNCHANGED <<revision, host, matchesHdr, context, listeners, canvases, layoutVars, instanceVars, surfaces>>

\* requestAdapter() settled; up to `await adapter.requestDevice()`.
configureDevice_adapter ==
    /\ calls.adapter > 0
    /\ \E adapter \in BOOLEAN :
          IF adapter
          THEN /\ calls' = [adapter |-> calls.adapter - 1, device |-> calls.device + 1]
               /\ last' = Last("configureDevice:adapter", "requestDevice", FALSE, FALSE, context)
          ELSE /\ calls' = [calls EXCEPT !.adapter = @ - 1]
               /\ last' = Last("configureDevice:adapter", "threw", TRUE, FALSE, context)
    /\ log' = <<>>
    /\ UNCHANGED <<revision, host, matchesHdr, context, listeners, canvases, layoutVars, instanceVars, surfaces>>

\* requestDevice() settled, revision gpuContextManager.js: the GpuContext is
\* built from four arguments, its isHighDynamicRange is undefined.
configureDevice_device ==
    /\ revision = "gpuContextManager.js"
    /\ calls.device > 0
    /\ \E device \in BOOLEAN :
          /\ context' = IF device
                        THEN GpuContext("device", "null", "null", "rgba16float", "undefined")
                        ELSE context
          /\ last' = Last("configureDevice:device", IF device THEN "returned" ELSE "threw",
                          ~device, device, context)
    /\ calls' = [calls EXCEPT !.device = @ - 1]
    /\ log' = <<>>
    /\ UNCHANGED <<revision, host, matchesHdr, listeners, canvases, layoutVars, instanceVars, surfaces>>

\* requestDevice() settled, revision part_006: the GpuContext is built, then
\* the best configuration is detected and stored.
configureDevice_device_p6 ==
    /\ revision = "part_006"
    /\ calls.device > 0
    /\ \E device \in BOOLEAN, probe \in AcceptProfiles :
          LET d == detectBestCanvasConfiguration(host, probe)
          IN  /\ context' = IF device
                            THEN GpuContext("device", d.pair[1], d.pair[2], "rgba16float",
                                            Bool2Str(matchesHdr))
                            ELSE context
              /\ log' = IF device THEN d.events ELSE <<>>
              /\ last' = Last("configureDevice:device", IF device THEN "returned" ELSE "threw",
                              ~device, device, context)
    /\ calls' = [calls EXCEPT !.device = @ - 1]
    /\ UNCHANGED <<revision, host, matchesHdr, listeners, canvases, layoutVars, instanceVars, surfaces>>

\* get context()
contextThrows == context = NoContext

(***************************************************************************)
(* Subscriptions; the same in both revisions.                              *)
(***************************************************************************)
onReconfigure(callback) ==
    /\ listeners' = SetAdd(listeners, callback)
    /\ log' = <<>>
    /\ last' = Last("onReconfigure", callback, FALSE, FALSE, context)
    /\ UNCHANGED <<revision, host, matchesHdr, context, canvases, calls, layoutVars, instanceVars, surfaces>>

offReconfigure(callback) ==
    /\ listeners' = SetDelete(listeners, callback)
    /\ log' = <<>>
    /\ last' = Last("offReconfigure", callback, FALSE, FALSE, context)
    /\ UNCHANGED <<revision, host, matchesHdr, context, canvases, calls, layoutVars, instanceVars, surfaces>>

(***************************************************************************)
(* WaveformVisualizer (src/unnamed/part_003): one instance.  The shader    *)
(* sources are either handed to the constructor, and then neither the      *)
(* constructor nor #setupPipeline waits for a shader, or loaded first.     *)
(***************************************************************************)
MaxBuffers == 10

MaxDisposes == 2

\* JavaScript values handed to the setters: a number (v in hundredths, or NaN)
\* or a string holding a number.
Num(v) == [t |-> "number", nan |-> FALSE, v |-> v]

Str(v) == [t |-> "string", nan |-> FALSE, v |-> v]

NaN == [t |-> "number", nan |-> TRUE, v |-> 0]

\* typeof x === 'number'
TypeofNumber(x) == x.t = "number"

\* Number.isNaN(x): no conversion
NumberIsNaN(x) == x.t = "number" /\ x.nan

\* isNaN(x): x is converted to a number first
GlobalIsNaN(x) == x.nan

\* Number.isInteger(x)
NumberIsInteger(x) == x.t = "number" /\ ~x.nan /\ x.v % 100 = 0

\* x < n and x > n for n in hundredths; false when x converts to NaN
Less(x, n) == ~x.nan /\ x.v < n

Greater(x, n) == ~x.nan /\ x.v > n

\* this.#maskGroup = [0.0, 0.0, 0.0]; `extra` says that a property other
\* than 0, 1, 2 was set on the array.
InitialMaskGroup == [isNull |-> FALSE, e |-> <<Num(0), Num(0), Num(0)>>, extra |-> FALSE]

NullMaskGroup == [isNull |-> TRUE, e |-> <<Num(0), Num(0), Num(0)>>, extra |-> FALSE]

\* array[index] = value: the index is turned into a property name
StoreAt(array, index, value) ==
    IF index.v \in {0, 100, 200}
    THEN [array EXCEPT !.e[(index.v \div 100) + 1] = value]
    ELSE [array EXCEPT !.extra = TRUE]

\* The instance when the constructor returns (lines 229-290): the canvas is
\* configured, the device and the formats are read from the registry, the
\* reconfigure callback is subscribed, and the async initialization waits
\* for mean.bin.  A buffer field holds the buffer's number, 0 for null.
\* The buffers a bind group holds: none before #setupBindGroups.
NothingBound == [waveformData |-> 0, backgroundData |-> 0, params |-> 0,
                 channelLayout |-> 0, computeOutput |-> 0]

\* Math.max(1, Math.floor(client * this.#devicePixelRatio)); the ratio in
\* hundredths.
CanvasSize(client, ratio) ==
    IF (client * ratio) \div 100 < 1 THEN 1 ELSE (client * ratio) \div 100

\* What a buffer holds: of the params buffer the channel count and the
\* canvas size written to it; of the layout buffer the height and the
\* channel count its 128 floats were computed from; of the output buffer
\* the number of vec2<f32> entries it was created for.
BufferData(kind, count, canvasWidth, canvasHeight, entries) ==
    [kind |-> kind, channelCount |-> count, width |-> canvasWidth, height |-> canvasHeight,
     entries |-> entries]

\* The canvas as lines 229-232 leave it: its client size in CSS pixels,
\* its width and height.
Canvas(size, ratio) ==
    [clientWidth |-> size[1], clientHeight |-> size[2],
     width |-> CanvasSize(size[1], ratio), height |-> CanvasSize(size[2], ratio)]

\* No buffer, no bind group, the canvas of the constructor.
GpuData(size, ratio) ==
    [buffers |-> <<>>, bound |-> NothingBound, canvas |-> Canvas(size, ratio)]

\* The instance as its constructor leaves it (lines 222-273), at a
\* devicePixelRatio of 1.
Constructed(source, orchestrator) ==
    [source |-> source, phase |-> "mean", shaderCode |-> TRUE,
     disposed |-> FALSE, needsRender |-> TRUE, isRegistered |-> FALSE,
     orchestrator |-> orchestrator, orchestratorParticipantId |-> orchestrator,
     standaloneRafId |-> FALSE,
     gpuDevice |-> TRUE, context |-> TRUE,
     waveformData |-> FALSE, backgroundData |-> FALSE,
     waveformDataFrom |-> "", backgroundDataFrom |-> "",
     paramsBuffer |-> 0, channelLayoutBuffer |-> 0, waveformDataBuffer |-> 0,
     backgroundDataBuffer |-> 0, computeOutputBuffer |-> 0,
     layouts |-> FALSE, pipelines |-> FALSE, sampler |-> FALSE, bindGroups |-> FALSE,
     devicePixelRatio |-> 100,
     resizeObserver |-> FALSE,
     maskGroup |-> InitialMaskGroup, channelCount |-> 1,
     onReconfigureCallback |-> TRUE, gpuContextManager |-> TRUE]

\* The client sizes a canvas is given, in CSS pixels.
ClientSizes == { <<0, 0>>, <<3, 5>>, <<8, 24>> }

\* window.devicePixelRatio || 1 (line 229), in hundredths
DevicePixelRatios == {100, 150}

\* static BOOST = 1.2; static OFFSET = 0.15 (in hundredths)
InitialStatics == [BOOST |-> 120, OFFSET |-> 15]

\* removed: what unregister(id) leaves of an earlier instance's participant
\* held under the same id.
removed(older) == IF older = "registered" THEN "unregistered" ELSE older

NoOrchestrator == [supplied |-> FALSE, hasUnregister |-> FALSE, registered |-> FALSE,
                   older |-> "none"]

ZeroTally == [disposes |-> 0, unregisters |-> 0, offs |-> 0, registers |-> 0,
              marks |-> "none", notes |-> "none", fetched |-> <<>>]

\* The record of an operation on the instance.
\* submitted: it called queue.submit; encoded: it encoded the two passes;
\* arg: the argument of a setter call; marks: for a refresh callback, the
\* mutations it found made since the callback before it; notes: for a
\* resize timer, the notifications made since the timer before it.
ILast(op, threw, submitted, encoded, before) ==
    [op |-> op, threw |-> threw, submitted |-> submitted, encoded |-> encoded,
     before |-> before, arg |-> <<>>, marks |-> "none", notes |-> "none"]

\* The record of a setter call, with the argument it was given.
ISet(op, threw, before, arg) ==
    [ILast(op, threw, FALSE, FALSE, before) EXCEPT !.arg = arg]

\* No instance has been constructed.
NoInstance ==
    /\ inst = [Constructed("part_003", FALSE) EXCEPT !.phase = "none"]
    /\ gpuBuffers = <<>>
    /\ gpuData = GpuData(<<8, 24>>, 100)
    /\ pending = [raf |-> 0, timer |-> 0, setup |-> FALSE]
    /\ orch = NoOrchestrator
    /\ statics = InitialStatics
    /\ tally = ZeroTally
    /\ ilast = ILast("none", FALSE, FALSE, FALSE, [Constructed("part_003", FALSE) EXCEPT !.phase = "none"])

\* The instance with everything it touches: i its fields, b the buffers,
\* d what the buffers hold,
\* p the host's pending callbacks, o the orchestrator, t the tally.
World == [i |-> inst, b |-> gpuBuffers, d |-> gpuData, p |-> pending, o |-> orch, t |-> tally]

\* A #scheduleStandaloneRender without the test of #standaloneRafId.
scheduleStandaloneRenderMutNoGuard(w) ==
    IF ~w.i.gpuDevice \/ ~w.i.context THEN w
    ELSE [w EXCEPT !.i.standaloneRafId = TRUE, !.p.raf = @ + 1]

\* #scheduleStandaloneRender()
scheduleStandaloneRender(w) ==
    IF w.i.standaloneRafId THEN w
    ELSE IF ~w.i.gpuDevice \/ ~w.i.context THEN w
    ELSE [w EXCEPT !.i.standaloneRafId = TRUE, !.p.raf = @ + 1]

\* A markDirty that does not set the flag.
markDirtyMutNoFlag(w) ==
    IF ~w.i.orchestrator THEN scheduleStandaloneRender(w) ELSE w

\* #markDirty()
markDirty(w) ==
    LET w1 == [w EXCEPT !.i.needsRender = TRUE]
    IN  IF ~w1.i.orchestrator THEN scheduleStandaloneRender(w1) ELSE w1

\* writeParamsBuffer()
writeParamsBuffer(w) ==
    IF ~w.i.gpuDevice \/ w.i.paramsBuffer = 0 THEN w
    ELSE markDirty([w EXCEPT !.d.buffers[w.i.paramsBuffer] =
                       BufferData("params", w.i.channelCount, w.d.canvas.width,
                                  w.d.canvas.height, 0)])

\* this.#gpuDevice.createBuffer(...): the new buffer's number
NewBuffer(w) == Len(w.b) + 1

\* buffer?.destroy()
destroy(w, buffer) ==
    IF buffer = 0 THEN w
    ELSE [w EXCEPT !.b[buffer] = @ + 1,
                   !.d.buffers[buffer] = BufferData("destroyed", 0, 0, 0, 0)]

\* A #setupBindGroups that keeps the bind groups it has already created.
setupBindGroupsMutKeep(w) ==
    IF ~w.i.gpuDevice \/ ~w.i.layouts \/ ~w.i.sampler \/ w.i.bindGroups THEN w
    ELSE [w EXCEPT !.i.bindGroups = TRUE,
                   !.d.bound = [waveformData   |-> w.i.waveformDataBuffer,
                                backgroundData |-> w.i.backgroundDataBuffer,
                                params         |-> w.i.paramsBuffer,
                                channelLayout  |-> w.i.channelLayoutBuffer,
                                computeOutput  |-> w.i.computeOutputBuffer]]

\* #setupBindGroups()
setupBindGroups(w) ==
    IF ~w.i.gpuDevice \/ ~w.i.layouts \/ ~w.i.sampler THEN w
    ELSE [w EXCEPT !.i.bindGroups = TRUE,
                   !.d.bound = [waveformData   |-> w.i.waveformDataBuffer,
                                backgroundData |-> w.i.backgroundDataBuffer,
                                params         |-> w.i.paramsBuffer,
                                channelLayout  |-> w.i.channelLayoutBuffer,
                                computeOutput  |-> w.i.computeOutputBuffer]]

\* #setupPipeline() from line 441 on.  this.#gpuDevice.createShaderModule
\* throws when the device is null, this.#waveformData.length and
\* this.#backgroundData.byteLength throw when the data is null; what was
\* assigned before the throw stays.  threw: the promise is rejected.
\* The display shader source is present whenever the data is (lines
\* 293-305), so line 499 does not wait.
setupPipelineBody(w) ==
    IF ~w.i.gpuDevice \/ ~w.i.waveformData THEN [w |-> w, threw |-> TRUE]
    ELSE LET w1 == [w EXCEPT !.i.paramsBuffer = NewBuffer(w), !.b = Append(@, 0),
                             !.d.buffers = Append(@, BufferData("params", 0, 0, 0, 0))]
             w2 == writeParamsBuffer(w1)
             w3 == [w2 EXCEPT !.i.waveformDataBuffer = NewBuffer(w2), !.b = Append(@, 0),
                              !.d.buffers = Append(@, BufferData("waveformData", 0, 0, 0, 0))]
             w4 == [w3 EXCEPT !.i.backgroundDataBuffer = NewBuffer(w3), !.b = Append(@, 0),
                              !.d.buffers = Append(@, BufferData("backgroundData", 0, 0, 0, 0)),
                              !.i.layouts = TRUE, !.i.pipelines = TRUE, !.i.sampler = TRUE]
         IN  IF ~w.i.backgroundData THEN [w |-> w3, threw |-> TRUE]
             ELSE [w |-> w4, threw |-> FALSE]

\* async #setupPipeline(): with the shader source present it runs to its
\* end without waiting; without it, it waits at line 440 for its own
\* loadShader and the caller goes on.
setupPipeline(w) ==
    IF w.i.shaderCode THEN setupPipelineBody(w)
    ELSE [w |-> [w EXCEPT !.p.setup = TRUE], threw |-> FALSE]

\* layoutData of #resizeTextures (lines 414-424): 128 floats, the offsets in
\* the first 64, the heights in the last 64, channel i at vec4 i / 4,
\* component i % 4.
layoutData(lay, count) ==
    [j \in 1..128 |->
        LET base == IF j <= 64 THEN 0 ELSE 64
            i    == j - base - 1
        IN  IF i >= count THEN 0
            ELSE IF j <= 64 THEN lay.offsets[i + 1] ELSE lay.heights[i + 1]]

\* The floats written to a layout buffer (lines 413-430).
Floats(data) ==
    layoutData(computeChannelLayout(data.height, data.channelCount), data.channelCount)

\* #resizeTextures()
resizeTextures(w) ==
    IF ~w.i.gpuDevice THEN w
    ELSE LET w0 == [w EXCEPT !.d.canvas.width  = CanvasSize(w.d.canvas.clientWidth,
                                                           w.i.devicePixelRatio),
                             !.d.canvas.height = CanvasSize(w.d.canvas.clientHeight,
                                                            w.i.devicePixelRatio)]
             w1 == destroy(destroy(w0, w0.i.computeOutputBuffer), w0.i.channelLayoutBuffer)
             w2 == [w1 EXCEPT !.i.computeOutputBuffer = NewBuffer(w1), !.b = Append(@, 0),
                              !.d.buffers = Append(@, BufferData("computeOutput", 0, 0, 0,
                                                         w1.d.canvas.width * w1.d.canvas.height))]
             w3 == writeParamsBuffer(w2)
             w4 == [w3 EXCEPT !.i.channelLayoutBuffer = NewBuffer(w3), !.b = Append(@, 0),
                              !.d.buffers = Append(@, BufferData("channelLayout",
                                                 w3.i.channelCount, 0, w3.d.canvas.height, 0))]
         IN  markDirty(setupBindGroups(w4))

\* #registerWithOrchestrator(); unregisterThrows: what the orchestrator's
\* unregister does when it is called.
registerWithOrchestrator(w, unregisterThrows) ==
    IF w.i.isRegistered \/ ~w.i.gpuDevice THEN w
    ELSE IF ~w.i.orchestrator THEN [w EXCEPT !.i.isRegistered = TRUE]
    ELSE LET w1 == [w EXCEPT !.i.orchestratorParticipantId = TRUE]
             w2 == IF w1.o.hasUnregister /\ ~unregisterThrows
                   THEN [w1 EXCEPT !.o.registered = FALSE, !.o.older = removed(@)]
                   ELSE w1
         IN  [w2 EXCEPT !.o.registered = TRUE, !.t.registers = @ + 1,
                        !.i.isRegistered = TRUE]

\* An #encode that encodes the passes whatever has been built.
encodesMutAlways(i) == TRUE

\* #encode(encoder): are the two passes encoded
encodes(i) ==
    i.gpuDevice /\ i.pipelines /\ i.bindGroups /\ i.paramsBuffer # 0

\* One more mutation since the last refresh callback: none, one, many.
Marked(marks) == IF marks = "none" THEN "one" ELSE "many"

\* A mutation has marked the instance dirty while a refresh callback is
\* pending: it is counted for that callback.
Mutation(w) ==
    IF w.p.raf = 1 /\ w.i.needsRender THEN [w EXCEPT !.t.marks = Marked(@)] ELSE w

\* The instance's variables take the values of w.
Becomes(w) ==
    /\ inst' = w.i
    /\ gpuBuffers' = w.b
    /\ gpuData' = w.d
    /\ pending' = w.p
    /\ orch' = w.o
    /\ tally' = w.t

(***************************************************************************)
(* WaveformVisualizer: the operations on the instance.                     *)
(***************************************************************************)
\* The two `await loadShader(...)` of the initialization settle (lines
\* 293-294), for an instance constructed without shader sources.
load_shaders ==
    /\ inst.source = "part_003"
    /\ inst.phase = "shaders"
    /\ \E ok \in BOOLEAN :
          /\ inst' = IF ok THEN [inst EXCEPT !.phase = "mean", !.shaderCode = TRUE]
                     ELSE [inst EXCEPT !.phase = "failed"]
          /\ ilast' = ILast("load_shaders", ~ok, FALSE, FALSE, inst)
    /\ UNCHANGED <<registryVars, layoutVars, gpuBuffers, gpuData, pending, orch, statics, tally>>

\* The loadShader awaited by a #setupPipeline() at line 440 settles: the
\* call stores the source and runs on from line 441.
setupPipeline_resume ==
    /\ inst.source = "part_003"
    /\ pending.setup
    /\ Len(gpuBuffers) + 3 <= MaxBuffers
    /\ Becomes(setupPipelineBody([World EXCEPT !.p.setup = FALSE, !.i.shaderCode = TRUE]).w)
    /\ ilast' = ILast("setupPipeline", FALSE, FALSE, FALSE, inst)
    /\ UNCHANGED <<registryVars, layoutVars, statics>>

\* new Float32Array(arrayBuffer).length for the file at a location: the
\* per-track dataset has 12 elements, the default dataset 32.
ElementCount(location) ==
    IF location = "track" THEN 12 ELSE IF location = "default" THEN 32 ELSE 0

\* response.ok of the fetch of a file (line 159): a file the server does not
\* hold is never answered, one it holds is answered unless the request fails
\* (answered, chosen by the network).
responseOk(location, file, served, answered) ==
    <<location, file>> \in served /\ answered[location]

\* try { await loadBinaryFile(`${mediaDirectory}/${uuid}/${file}`) }
\* catch { await loadBinaryFile(default location of file) }
\* (lines 295-300 and 301-306): where the data came from ("" when both
\* fetches failed and the second rejection leaves the initialization) and
\* the fetches made, in order.
loadDataset(file, served, answered) ==
    IF responseOk("track", file, served, answered)
    THEN [from |-> "track", fetched |-> << <<"track", file>> >>]
    ELSE IF responseOk("default", file, served, answered)
    THEN [from |-> "default", fetched |-> << <<"track", file>>, <<"default", file>> >>]
    ELSE [from |-> "", fetched |-> << <<"track", file>>, <<"default", file>> >>]

\* What the network does with the two requests of one file.
Answers == [{"track", "default"} -> BOOLEAN]

\* The mean.bin fetches settle (lines 295-300).
load_mean ==
    /\ inst.source = "part_003"
    /\ inst.phase = "mean"
    /\ \E answered \in Answers :
         LET l == loadDataset("mean.bin", host.served, answered)
         IN  /\ inst' = IF l.from # ""
                        THEN [inst EXCEPT !.phase = "peak", !.waveformData = TRUE,
                                          !.waveformDataFrom = l.from]
                        ELSE [inst EXCEPT !.phase = "failed"]
             /\ tally' = [tally EXCEPT !.fetched = @ \o l.fetched]
             /\ ilast' = ILast("load_mean", l.from = "", FALSE, FALSE, inst)
    /\ UNCHANGED <<registryVars, layoutVars, gpuBuffers, gpuData, pending, orch, statics>>

\* The peak.bin fetches settle (lines 301-306) and the initialization runs
\* to its end (lines 301-327).  Nothing but promise continuations separates
\* these lines, so no event, timer or frame callback runs in between.
load_peak ==
    /\ inst.source = "part_003"
    /\ inst.phase = "peak"
    /\ Len(gpuBuffers) + 5 <= MaxBuffers
    /\ \E unregisterThrows \in BOOLEAN, answered \in Answers :
          LET l  == loadDataset("peak.bin", host.served, answered)
              ok == l.from # ""
              wf == [World EXCEPT !.t.fetched = @ \o l.fetched]
              w0 == [wf EXCEPT !.i.backgroundData = TRUE, !.i.backgroundDataFrom = l.from]
              s  == setupPipeline(w0)
              w1 == markDirty(setupBindGroups(resizeTextures(writeParamsBuffer(s.w))))
              w2 == registerWithOrchestrator(w1, unregisterThrows)
              w3 == [w2 EXCEPT !.i.resizeObserver = TRUE, !.i.phase = "ready"]
          IN  IF ~ok
              THEN /\ Becomes([wf EXCEPT !.i.phase = "failed"])
                   /\ ilast' = ILast("load_peak", TRUE, FALSE, FALSE, inst)
              ELSE IF s.threw
              THEN /\ Becomes([s.w EXCEPT !.i.phase = "failed"])
                   /\ ilast' = ILast("load_peak", TRUE, FALSE, FALSE, inst)
              ELSE /\ Becomes(w3)
                   /\ ilast' = ILast("load_peak", FALSE, FALSE, FALSE, inst)
    /\ UNCHANGED <<registryVars, layoutVars, statics>>

\* The arguments the setters are called with.
IndexInputs == {Num(200), Num(300), Num(150), Str(100), NaN}

ValueInputs == {Num(100), Num(150), Num(0 - 50), Str(100), NaN}

\* The {index, value} objects handed to the mask setters: every index with a
\* valid value, every value with a valid index, and one with both invalid.
MaskInputs ==
    {<<index, Num(100)>> : index \in IndexInputs}
        \cup {<<Num(200), value>> : value \in ValueInputs}
        \cup {<<NaN, NaN>>}

CountInputs == {Num(100), Num(1600), Num(0), Num(1700), Num(150), Str(200)}

\* The two tests of `set maskGroup` (lines 338 and 342)
invalidMask(index, value) ==
    \/ ~TypeofNumber(index) \/ ~NumberIsInteger(index) \/ index.v \notin {0, 100, 200}
    \/ ~TypeofNumber(value) \/ NumberIsNaN(value) \/ Less(value, 0) \/ Greater(value, 100)

\* set maskGroup({index, value}); on a disposed instance #maskGroup is null
\* and the assignment throws.
set_maskGroup ==
    /\ inst.source = "part_003"
    /\ inst.phase # "none"
    /\ \E index \in IndexInputs, value \in ValueInputs : <<index, value>> \in MaskInputs /\
          IF invalidMask(index, value) \/ inst.maskGroup.isNull
          THEN /\ ilast' = ISet("set maskGroup", TRUE, inst, <<index, value>>)
               /\ UNCHANGED <<inst, gpuBuffers, gpuData, pending, orch, tally>>
          ELSE /\ Becomes(Mutation(markDirty(writeParamsBuffer(
                      [World EXCEPT !.i.maskGroup = StoreAt(@, index, value)]))))
               /\ ilast' = ISet("set maskGroup", FALSE, inst, <<index, value>>)
    /\ UNCHANGED <<registryVars, layoutVars, statics>>

\* The two tests of `set groupMask` in src/unnamed/part_004 (lines 256, 259)
invalidMask_p4(index, value) ==
    \/ GlobalIsNaN(index) \/ Less(index, 0) \/ Greater(index, 200)
    \/ GlobalIsNaN(value) \/ Less(value, 0) \/ Greater(value, 100)

\* set groupMask({index, value}) of src/unnamed/part_004
set_groupMask_p4 ==
    /\ inst.source = "part_004"
    /\ \E index \in IndexInputs, value \in ValueInputs : <<index, value>> \in MaskInputs /\
          IF invalidMask_p4(index, value)
          THEN /\ ilast' = ISet("set maskGroup", TRUE, inst, <<index, value>>)
               /\ UNCHANGED inst
          ELSE /\ inst' = [inst EXCEPT !.maskGroup = StoreAt(@, index, value)]
               /\ ilast' = ISet("set maskGroup", FALSE, inst, <<index, value>>)
    /\ UNCHANGED <<registryVars, layoutVars, gpuBuffers, gpuData, pending, orch, statics, tally>>

\* The test of `set channelCount` (line 351)
invalidCount(value) ==
    ~TypeofNumber(value) \/ ~NumberIsInteger(value) \/ Less(value, 100) \/ Greater(value, 1600)

\* set channelCount(value); the promise of #setupPipeline() is dropped.
set_channelCount ==
    /\ inst.source = "part_003"
    /\ inst.phase # "none"
    /\ Len(gpuBuffers) + 5 <= MaxBuffers
    /\ inst.shaderCode \/ ~pending.setup
    /\ \E value \in CountInputs :
          IF invalidCount(value)
          THEN /\ ilast' = ISet("set channelCount", TRUE, inst, <<value>>)
               /\ UNCHANGED <<inst, gpuBuffers, gpuData, pending, orch, tally>>
          ELSE LET w0 == [World EXCEPT !.i.channelCount = value.v \div 100]
                   s  == setupPipeline(w0)
               IN  /\ Becomes(Mutation(markDirty(setupBindGroups(resizeTextures(writeParamsBuffer(s.w))))))
                   /\ ilast' = ISet("set channelCount", FALSE, inst, <<value>>)
    /\ UNCHANGED <<registryVars, layoutVars, statics>>

\* WaveformVisualizer.BOOST = ... / WaveformVisualizer.OFFSET = ...: plain
\* assignments to static fields.
set_BOOST ==
    /\ inst.source = "part_003"
    /\ inst.phase # "none"
    /\ \E boost \in {20, 120} :
          /\ boost # statics.BOOST
          /\ statics' = [statics EXCEPT !.BOOST = boost]
    /\ ilast' = ILast("set BOOST", FALSE, FALSE, FALSE, inst)
    /\ UNCHANGED <<registryVars, layoutVars, inst, gpuBuffers, gpuData, pending, orch, tally>>

set_OFFSET ==
    /\ inst.source = "part_003"
    /\ inst.phase # "none"
    /\ \E offset \in {15, 80} :
          /\ offset # statics.OFFSET
          /\ statics' = [statics EXCEPT !.OFFSET = offset]
    /\ ilast' = ILast("set OFFSET", FALSE, FALSE, FALSE, inst)
    /\ UNCHANGED <<registryVars, layoutVars, inst, gpuBuffers, gpuData, pending, orch, tally>>

\* instance.writeParamsBuffer(), called from outside
call_writeParamsBuffer ==
    /\ inst.source = "part_003"
    /\ inst.phase # "none"
    /\ Becomes(writeParamsBuffer(World))
    /\ ilast' = ILast("writeParamsBuffer", FALSE, FALSE, FALSE, inst)
    /\ UNCHANGED <<registryVars, layoutVars, statics>>

\* clearTimeout(resizeTimeout): the timer named, if it is still pending, is
\* cancelled; timers is the number of pending timers.
clearTimeout(timers) == IF timers > 0 THEN timers - 1 ELSE timers

\* A ResizeObserver callback that sets a timer without clearing the last.
resizeObserverCallbackMutNoClear(w) ==
    [w EXCEPT !.p.timer = @ + 1, !.t.notes = Marked(@)]

\* The body of the ResizeObserver callback for the canvas (lines 319-323):
\* clearTimeout(resizeTimeout); resizeTimeout = setTimeout(..., 100)
resizeObserverCallback(w) ==
    [w EXCEPT !.p.timer = clearTimeout(@) + 1, !.t.notes = Marked(@)]

\* The ResizeObserver notifies the instance of a size change of its canvas
\* (lines 316-326).
resize ==
    /\ inst.source = "part_003"
    /\ inst.resizeObserver
    /\ Becomes(resizeObserverCallback(World))
    /\ ilast' = ILast("resize", FALSE, FALSE, FALSE, inst)
    /\ UNCHANGED <<registryVars, layoutVars, statics>>

\* The timer of the resize debounce fires (lines 320-323).
resizeTimeout ==
    /\ inst.source = "part_003"
    /\ pending.timer > 0
    /\ ~inst.gpuDevice \/ Len(gpuBuffers) + 2 <= MaxBuffers
    /\ Becomes(Mutation(markDirty(resizeTextures(
                   [World EXCEPT !.p.timer = @ - 1, !.t.notes = "none"]))))
    /\ ilast' = [ILast("resizeTimeout", FALSE, FALSE, FALSE, inst)
                    EXCEPT !.notes = tally.notes]
    /\ UNCHANGED <<registryVars, layoutVars, statics>>

\* The requestAnimationFrame callback of #scheduleStandaloneRender runs
\* (lines 591-600).
standaloneFrame ==
    /\ inst.source = "part_003"
    /\ pending.raf > 0
    /\ LET w0 == [World EXCEPT !.p.raf = @ - 1, !.i.standaloneRafId = FALSE,
                                !.t.marks = "none"]
       IN  IF inst.disposed \/ ~inst.needsRender
           THEN /\ Becomes(w0)
                /\ ilast' = [ILast("standaloneFrame", FALSE, FALSE, FALSE, inst)
                                EXCEPT !.marks = tally.marks]
           ELSE /\ Becomes([w0 EXCEPT !.i.needsRender = FALSE])
                /\ ilast' = [ILast("standaloneFrame", FALSE, TRUE, encodes(inst), inst)
                                EXCEPT !.marks = tally.marks]
    /\ UNCHANGED <<registryVars, layoutVars, statics>>

\* wantsFrame: () => !!this.#needsRender
wantsFrame(i) == i.needsRender

\* A participant whose encode never clears the flag.
participantEncodeMutKeepFlag(i) == i

\* encode: (encoder) => { ... } of the registered participant (lines 661-667)
participantEncode(i) ==
    IF i.disposed THEN i
    ELSE IF ~i.context \/ ~i.pipelines \/ ~i.bindGroups THEN i
    ELSE [i EXCEPT !.needsRender = FALSE]

\* The orchestrator's frame: it asks the participant it holds whether it
\* wants a frame and, if so, has it encode into the shared encoder.
orchestratorFrame ==
    /\ inst.source = "part_003"
    /\ orch.registered
    /\ IF wantsFrame(inst)
       THEN /\ inst' = participantEncode(inst)
            /\ ilast' = ILast("encode", FALSE, FALSE,
                              ~inst.disposed /\ inst.context /\ inst.pipelines
                                  /\ inst.bindGroups /\ encodes(inst), inst)
       ELSE /\ UNCHANGED inst
            /\ ilast' = ILast("wantsFrame", FALSE, FALSE, FALSE, inst)
    /\ UNCHANGED <<registryVars, layoutVars, gpuBuffers, gpuData, pending, orch, statics, tally>>

\* A dispose that stops when unregister throws.
disposeTailMutRethrow(w, unregisterThrows) ==
    IF w.i.orchestrator /\ w.o.hasUnregister /\ w.i.orchestratorParticipantId /\ unregisterThrows
    THEN [w |-> [w EXCEPT !.t.unregisters = @ + 1], threw |-> TRUE, off |-> FALSE]
    ELSE LET w1 == IF w.i.orchestrator /\ w.o.hasUnregister /\ w.i.orchestratorParticipantId
                   THEN [w EXCEPT !.t.unregisters = @ + 1, !.o.registered = FALSE,
                                  !.o.older = removed(@)]
                   ELSE w
             off == w1.i.gpuContextManager /\ w1.i.onReconfigureCallback
         IN  [w |-> [w1 EXCEPT !.i.orchestratorParticipantId = FALSE, !.i.orchestrator = FALSE,
                                !.t.offs = IF off THEN @ + 1 ELSE @,
                                !.i.onReconfigureCallback = FALSE,
                                !.i.gpuContextManager = FALSE],
              threw |-> FALSE, off |-> off]

\* dispose(), lines 720-735: unregister inside try/catch, then the
\* unsubscription.  off: offReconfigure was called.
disposeTail(w, unregisterThrows) ==
    LET call == w.i.orchestrator /\ w.o.hasUnregister /\ w.i.orchestratorParticipantId
        w1   == IF call
                THEN [w EXCEPT !.t.unregisters = @ + 1,
                               !.o.registered = IF unregisterThrows THEN @ ELSE FALSE,
                               !.o.older = IF unregisterThrows THEN @ ELSE removed(@)]
                ELSE w
        off  == w1.i.gpuContextManager /\ w1.i.onReconfigureCallback
    IN  [w |-> [w1 EXCEPT !.i.orchestratorParticipantId = FALSE, !.i.orchestrator = FALSE,
                           !.t.offs = IF off THEN @ + 1 ELSE @,
                           !.i.onReconfigureCallback = FALSE,
                           !.i.gpuContextManager = FALSE],
         threw |-> FALSE, off |-> off]

\* A dispose that destroys the buffers and leaves the flags, the callback
\* and the references as they are.
disposeHeadMutBuffersOnly(w) ==
    destroy(destroy(destroy(destroy(destroy(w,
        w.i.paramsBuffer), w.i.channelLayoutBuffer), w.i.waveformDataBuffer),
        w.i.backgroundDataBuffer), w.i.computeOutputBuffer)

\* dispose(), lines 674-718: flags, cancelAnimationFrame, observer, buffers,
\* references.  #animationFrameId is 0 throughout, so its branch is dead.
disposeHead(w) ==
    LET w1 == [w EXCEPT !.i.disposed = TRUE, !.i.needsRender = FALSE]
        w2 == IF w1.i.standaloneRafId
              THEN [w1 EXCEPT !.p.raf = @ - 1, !.i.standaloneRafId = FALSE,
                              !.t.marks = "none"]
              ELSE w1
        w3 == [w2 EXCEPT !.i.resizeObserver = FALSE]
        w4 == destroy(destroy(destroy(destroy(destroy(w3,
                  w3.i.paramsBuffer), w3.i.channelLayoutBuffer), w3.i.waveformDataBuffer),
                  w3.i.backgroundDataBuffer), w3.i.computeOutputBuffer)
    IN  [w4 EXCEPT !.i.paramsBuffer = 0, !.i.channelLayoutBuffer = 0,
                   !.i.waveformDataBuffer = 0, !.i.backgroundDataBuffer = 0,
                   !.i.computeOutputBuffer = 0,
                   !.i.pipelines = FALSE, !.i.sampler = FALSE,
                   !.i.context = FALSE, !.i.gpuDevice = FALSE,
                   !.i.waveformData = FALSE, !.i.backgroundData = FALSE,
                   !.i.waveformDataFrom = "", !.i.backgroundDataFrom = "",
                   !.i.maskGroup = NullMaskGroup]

\* dispose()
dispose ==
    /\ inst.source = "part_003"
    /\ inst.phase # "none"
    /\ tally.disposes < MaxDisposes
    /\ \E unregisterThrows \in BOOLEAN :
          LET r == disposeTail(disposeHead([World EXCEPT !.t.disposes = @ + 1]), unregisterThrows)
          IN  /\ Becomes(r.w)
              /\ listeners' = IF r.off THEN SetDelete(listeners, "cb1") ELSE listeners
              /\ ilast' = ILast("dispose", r.threw, FALSE, FALSE, inst)
    /\ UNCHANGED <<revision, host, matchesHdr, context, canvases, calls, log, last,
                   surfaces, layoutVars, statics>>

\* The registry broadcasts and the instance's callback runs (lines 275-284);
\* the promise of #setupPipeline() is dropped.
onReconfigureCallback ==
    /\ inst.phase # "none"
    /\ inst.source = "part_003"
    /\ \E k \in 1..Len(listeners) : listeners[k] = "cb1"
    /\ Len(gpuBuffers) + 5 <= MaxBuffers
    /\ inst.shaderCode \/ ~pending.setup
    /\ Becomes(setupBindGroups(resizeTextures(setupPipeline(World).w)))
    /\ ilast' = ILast("onReconfigureCallback", FALSE, FALSE, FALSE, inst)
    /\ UNCHANGED <<registryVars, layoutVars, statics>>

(***************************************************************************)
(* WaveformVisualizer: the constructor as the registry sees it (lines      *)
(* 222-290).                                                               *)
(***************************************************************************)
\* A constructor that subscribes before it configures the canvas.
constructorListenersMutSubscribeFirst(lst, callback, threw) == SetAdd(lst, callback)

\* this.#gpuContextManager.onReconfigure(this.#onReconfigureCallback) at
\* line 285 is reached when nothing before it threw.
constructorListeners(lst, callback, threw) ==
    IF threw THEN lst ELSE SetAdd(lst, callback)

\* new WaveformVisualizer(...): found tells whether root.querySelector
\* returned the canvas (line 225); when it did, the constructor calls
\* configureCanvas(canvas) (line 268), reads the registry's context (269),
\* and subscribes its callback (285).
constructor(canvas, callback, found, profiles) ==
    /\ IF ~found
       THEN /\ log' = <<>>
            /\ last' = Last("constructor", "null", TRUE, FALSE, context)
            /\ UNCHANGED <<context, canvases, listeners>>
       ELSE IF revision = "gpuContextManager.js"
       THEN \E accepts \in profiles :
               LET r == configureCanvasResult(canvas, accepts, context, listeners)
               IN  /\ context' = r.context
                   /\ canvases' = IF r.threw THEN canvases ELSE SetAdd(canvases, canvas)
                   /\ listeners' = constructorListeners(listeners, callback, r.threw)
                   /\ log' = r.events
                   /\ last' = Last("constructor", canvas, r.threw, FALSE, context)
       ELSE \E accepts \in profiles :
               LET pair == <<context.format, context.colorSpace>>
                   ok   == context # NoContext /\ pair \in accepts
               IN  /\ canvases' = IF ok THEN SetAdd(canvases, canvas) ELSE canvases
                   /\ listeners' = constructorListeners(listeners, callback, ~ok)
                   /\ log' = IF context = NoContext THEN <<>>
                             ELSE <<Event("configure", canvas, pair[1], pair[2], ok)>>
                   /\ last' = Last("constructor", canvas, ~ok, FALSE, context)
                   /\ UNCHANGED context
    /\ UNCHANGED <<revision, host, matchesHdr, calls, layoutVars, instanceVars>>

construct(canvas, callback, found) ==
    constructor(canvas, callback, found, AcceptProfiles) /\ UNCHANGED surfaces

(***************************************************************************)
(* Two instances on one registry.  The instance with callback cb1 draws on *)
(* canvas A, the one with cb2 on canvas B.  Of an instance the fields that *)
(* depend on the registry are followed: #canvasFormat, #canvasColorSpace,  *)
(* the target format of its display pipeline, #needsRender.                *)
(***************************************************************************)
NoPair == <<"none", "none">>

\* What the canvases of the two instances accept: every pair, or the pairs
\* of rgba8unorm only.
SurfaceProfiles == {AcceptAll, Accept8bit}

NoView ==
    [state |-> "none", canvasFormat |-> "none", canvasColorSpace |-> "none",
     target |-> "none", needsRender |-> FALSE]

\* failed: a configureCanvas call threw, or the reconfiguration of a
\* canvas failed.
Unmounted ==
    [configured |-> [canvas \in Canvases |-> NoPair],
     instances  |-> [callback \in Callbacks |-> NoView],
     failed |-> FALSE]

canvasOf(callback) == IF callback = "cb1" THEN "A" ELSE "B"

\* A configure call without colorSpace configures "srgb", the default of
\* GPUCanvasConfiguration.colorSpace.
ConfiguredPair(event) ==
    <<event.format, IF event.colorSpace = "default" THEN "srgb" ELSE event.colorSpace>>

\* #onReconfigureCallback (part_003 lines 275-284): the pair is cached;
\* #setupPipeline builds the display pipeline for #canvasFormat when both
\* datasets are loaded and is rejected before that; #resizeTextures marks
\* the instance dirty while it has its device.
reconfigured(view, format, colorSpace) ==
    IF view.state = "none" THEN view
    ELSE IF view.state = "disposed"
    THEN [view EXCEPT !.canvasFormat = format, !.canvasColorSpace = colorSpace]
    ELSE [view EXCEPT !.canvasFormat = format, !.canvasColorSpace = colorSpace,
                      !.target = IF view.state = "ready" THEN format ELSE @,
                      !.needsRender = TRUE]

\* What the configure calls and the callbacks of one registry operation
\* leave on the canvases and in the instances, in the order they happened.
\* A configure call that throws leaves the canvas as it was.
RECURSIVE applied(_, _, _)
applied(events, i, s) ==
    IF i > Len(events) THEN s
    ELSE LET e  == events[i]
             s1 == IF e.type = "configure" /\ e.ok /\ e.who \in Canvases
                   THEN [s EXCEPT !.configured[e.who] = ConfiguredPair(e)]
                   ELSE IF e.type = "callback"
                   THEN [s EXCEPT !.instances[e.who] = reconfigured(@, e.format, e.colorSpace)]
                   ELSE IF e.type = "failed"
                   THEN [s EXCEPT !.failed = TRUE]
                   ELSE s
         IN  applied(events, i + 1, s1)

\* new WaveformVisualizer(...) on the canvas of `callback`: the constructor
\* of part_003 (lines 255-285), then the fields it leaves.
mount(callback) ==
    /\ surfaces.instances[callback].state = "none"
    /\ constructor(canvasOf(callback), callback, TRUE, SurfaceProfiles)
    /\ surfaces' =
          LET s == applied(log', 1, surfaces)
          IN  IF last'.threw THEN [s EXCEPT !.failed = TRUE]
              ELSE [s EXCEPT !.instances[callback] =
                       [state |-> "loading", canvasFormat |-> context'.format,
                        canvasColorSpace |-> context'.colorSpace,
                        target |-> "none", needsRender |-> TRUE]]

\* The instance's datasets are loaded (lines 309-313): #setupPipeline
\* builds the display pipeline for #canvasFormat, #markDirty.
loaded(callback) ==
    /\ surfaces.instances[callback].state = "loading"
    /\ surfaces' = [surfaces EXCEPT !.instances[callback] =
                       [@ EXCEPT !.state = "ready",
                                 !.target = surfaces.instances[callback].canvasFormat,
                                 !.needsRender = TRUE]]
    /\ log' = <<>>
    /\ last' = Last("loaded", callback, FALSE, FALSE, context)
    /\ UNCHANGED <<revision, host, matchesHdr, context, listeners, canvases, calls,
                   layoutVars, instanceVars>>

\* A frame of a ready instance (lines 591-600, 661-667) clears the flag.
drawn(callback) ==
    /\ surfaces.instances[callback].state = "ready"
    /\ surfaces.instances[callback].needsRender
    /\ surfaces' = [surfaces EXCEPT !.instances[callback].needsRender = FALSE]
    /\ log' = <<>>
    /\ last' = Last("frame", callback, FALSE, FALSE, context)
    /\ UNCHANGED <<revision, host, matchesHdr, context, listeners, canvases, calls,
                   layoutVars, instanceVars>>

\* dispose() (lines 673-738): the flags, the pipelines, offReconfigure.
\* The registry keeps the canvas.
unmount(callback) ==
    /\ surfaces.instances[callback].state \in {"loading", "ready"}
    /\ surfaces' = [surfaces EXCEPT !.instances[callback] =
                       [@ EXCEPT !.state = "disposed", !.target = "none",
                                 !.needsRender = FALSE]]
    /\ listeners' = SetDelete(listeners, callback)
    /\ log' = <<>>
    /\ last' = Last("dispose", callback, FALSE, FALSE, context)
    /\ UNCHANGED <<revision, host, matchesHdr, context, canvases, calls,
                   layoutVars, instanceVars>>

\* The capability change with the instances' callbacks run.
capabilityChange ==
    /\ \/ dynamicRangeChangeHandler(SurfaceProfiles)
       \/ dynamicRangeChangeHandler_p6(SurfaceProfiles)
    /\ surfaces' = applied(log', 1, surfaces)

SharedNext ==
    \/ configureDevice
    \/ configureDevice_adapter
    \/ configureDevice_device
    \/ configureDevice_device_p6
    \/ \E callback \in Callbacks : mount(callback)
    \/ \E callback \in Callbacks : loaded(callback)
    \/ \E callback \in Callbacks : drawn(callback)
    \/ \E callback \in Callbacks : unmount(callback)
    \/ capabilityChange

(***************************************************************************)
(* The compute kernel (src/wgsl/shaderComputeWaveform.wgsl), one           *)
(* invocation of main.  An f32 is written [m, e] for m * 2^e with m = 0 or *)
(* 2^23 <= m < 2^24; division and multiplication round to the nearest     *)
(* f32, ties to even (IEEE 754 binary32).                                  *)
(***************************************************************************)
F32Zero == [m |-> 0, e |-> 0]

\* q * 2^e with the remainder r out of d, rounded to the nearest f32.
F32Round(q, r, d, e) ==
    LET up == 2 * r > d \/ (2 * r = d /\ q % 2 = 1)
        m  == IF up THEN q + 1 ELSE q
    IN  IF m = 16777216 THEN [m |-> 8388608, e |-> e + 1] ELSE [m |-> m, e |-> e]

\* The k with 2^23 <= floor(a * 2^k / b) < 2^24, from k on.
RECURSIVE F32Scale(_, _, _)
F32Scale(a, b, k) ==
    IF (a * 2^k) \div b >= 8388608 THEN k ELSE F32Scale(a, b, k + 1)

\* f32(a) / f32(b) for integers 0 <= a, 0 < b that an f32 holds exactly
F32Div(a, b) ==
    IF a = 0 THEN F32Zero
    ELSE LET k == F32Scale(a, b, 0)
             n == a * 2^k
         IN  F32Round(n \div b, n % b, b, 0 - k)

\* The s with 2^23 <= floor(p / 2^s) < 2^24, from s on.
RECURSIVE F32Shift(_, _)
F32Shift(p, s) ==
    IF p \div 2^s < 16777216 THEN s ELSE F32Shift(p, s + 1)

\* f32(x) * f for an integer 0 <= x that an f32 holds exactly
F32MulInt(x, f) ==
    IF x = 0 \/ f.m = 0 THEN F32Zero
    ELSE LET p == x * f.m
             s == F32Shift(p, 0)
         IN  F32Round(p \div 2^s, p % 2^s, 2^s, f.e + s)

\* u32(floor(f)) for f >= 0 below 2^31
F32Floor(f) ==
    IF f.e >= 0 THEN f.m * 2^f.e
    ELSE IF 0 - f.e >= 24 THEN 0
    ELSE f.m \div 2^(0 - f.e)

\* f > g for f, g >= 0
F32Greater(f, g) ==
    IF g.m = 0 THEN f.m > 0
    ELSE IF f.m = 0 THEN FALSE
    ELSE IF f.e # g.e THEN f.e > g.e
    ELSE f.m > g.m

MaxWidth == 11

MaxSamples == 13

\* #firstChannelPeak as the kernel's inputs have it.  It is a power of two
\* and the samples are small integers, so every normalized value, half
\* height and row bound below is a multiple of 1/8 far below 2^24: f32
\* holds them exactly and the kernel's arithmetic on them does not round.
FirstChannelPeak == 4

\* waveform[index] and peaks[index] of dataset d (index from 0): raw values
\* 0..6, interleaved by channel as loadBinaryFile delivers them.
Waveform(d, index) == (index * (d + 1) + d) % 7

Peaks(d, index) == (index + 2 * d) % 7

\* channelLayout.channelOffset[group][sub], channelLayout.channelHeight[group][sub]
channelOffsetAt(data, group, sub) == data[group * 4 + sub + 1]

channelHeightAt(data, group, sub) == data[64 + group * 4 + sub + 1]

\* A lookup whose bands include the row below them.
RECURSIVE channelLookupMutInclusive(_, _, _, _, _)
channelLookupMutInclusive(data, count, y, i, found) ==
    IF i >= count THEN found
    ELSE LET offset   == channelOffsetAt(data, i \div 4, i % 4)
             chHeight == channelHeightAt(data, i \div 4, i % 4)
         IN  IF y >= offset /\ y <= offset + chHeight
             THEN i
             ELSE channelLookupMutInclusive(data, count, y, i + 1, found)

\* Lines 36-47: the loop over the channels from i on; found is channelIndex
\* (0 before the loop).
RECURSIVE channelLookup(_, _, _, _, _)
channelLookup(data, count, y, i, found) ==
    IF i >= count THEN found
    ELSE LET offset   == channelOffsetAt(data, i \div 4, i % 4)
             chHeight == channelHeightAt(data, i \div 4, i % 4)
         IN  IF y >= offset /\ y < offset + chHeight
             THEN i
             ELSE channelLookup(data, count, y, i + 1, found)

\* Lines 60-62: floor(f32(x) * (f32(samplesPerChannel) / f32(canvasWidth)))
sampleAt(x, samplesPerChannel, canvasWidth) ==
    F32Floor(F32MulInt(x, F32Div(samplesPerChannel, canvasWidth)))

\* Lines 65-73: the loop from sample i on; the values are in units of
\* 1 / FirstChannelPeak, so normalizedValue is the raw value.
RECURSIVE reduce(_, _, _, _, _, _, _)
reduce(d, i, endSample, samplesPerChannel, count, channelIndex, maxValue) ==
    IF ~(i < endSample /\ i < samplesPerChannel) THEN maxValue
    ELSE LET normalizedValue == Waveform(d, i * count + channelIndex)
         IN  reduce(d, i + 1, endSample, samplesPerChannel, count, channelIndex,
                    IF normalizedValue > maxValue THEN normalizedValue ELSE maxValue)

\* Lines 81-89: is the pixel at row localY of a band of height channelHeight
\* part of the bar.  With maxValue in units of 1/4 (FirstChannelPeak = 4),
\* halfHeight_pixel is maxValue * channelHeight / 8; both sides are
\* multiplied by 8.
inBar(localY, channelHeight, maxValue) ==
    LET lineCenter8 == 4 * channelHeight
        halfHeight8 == maxValue * channelHeight
        y_down8     == lineCenter8 - halfHeight8
        y_up8       == lineCenter8 + halfHeight8 + 8
    IN  8 * localY >= y_down8 /\ 8 * localY <= y_up8

\* Lines 91-100
maskGroupIndexOf(channelIndex) ==
    IF channelIndex <= 3 THEN 0 ELSE IF channelIndex <= 8 THEN 1 ELSE 2

\* A mask test that forces the pixels on and before the fraction.
forcedMutBelow(x, canvasWidth, maskFraction) ==
    ~F32Greater(F32Div(x, canvasWidth), F32Div(maskFraction, 100))

\* Lines 103-109: xFraction > maskFraction, the fraction given in hundredths
\* as the Float32Array of writeParamsBuffer holds it.
forced(x, canvasWidth, maskFraction) ==
    F32Greater(F32Div(x, canvasWidth), F32Div(maskFraction, 100))

\* What an invocation left behind before it ran.
NoOutput == [state |-> "none"]

\* No invocation: the kernel is not under study.
NoInvocation == [k |-> [slice |-> "none"], out |-> NoOutput]

\* main(gid) for the inputs k: canvasWidth, canvasHeight, channelCount,
\* length (arrayLength(&waveform)), d (the dataset), groupMask (hundredths),
\* boost, offset (hundredths), x, y (gid.x, gid.y).  An invocation outside
\* the canvas returns at line 28 and writes nothing; the others write
\* computeOutput[y * canvasWidth + x] = (brightness, alpha) at line 115.  The layout buffer holds
\* what #resizeTextures wrote for (canvasHeight, channelCount).  brightness
\* is in units of 1/400, alpha is 0 or 1.
main(k) ==
    IF k.x >= k.canvasWidth \/ k.y >= k.canvasHeight THEN [state |-> "returned"]
    ELSE LET data    == layoutData(computeChannelLayout(k.canvasHeight, k.channelCount),
                                   k.channelCount)
             channelIndex  == channelLookup(data, k.channelCount, k.y, 0, 0)
             channelOffset == channelOffsetAt(data, channelIndex \div 4, channelIndex % 4)
             channelHeight == channelHeightAt(data, channelIndex \div 4, channelIndex % 4)
             localY_pixel  == k.y - channelOffset
             samplesPerChannel == k.length \div k.channelCount
             startSample   == sampleAt(k.x, samplesPerChannel, k.canvasWidth)
             endSample     == sampleAt(k.x + 1, samplesPerChannel, k.canvasWidth)
             maxValue      == reduce(k.d, startSample, endSample, samplesPerChannel,
                                     k.channelCount, channelIndex, 0)
             rawPeakValue  == Peaks(k.d, startSample * k.channelCount + channelIndex)
             peakValue400  == rawPeakValue * k.boost + 4 * k.offset
             bar           == inBar(localY_pixel, channelHeight, maxValue)
             maskGroupIndex == maskGroupIndexOf(channelIndex)
             isForced      == forced(k.x, k.canvasWidth, k.groupMask[maskGroupIndex + 1])
             maskedPeak400 == IF isForced THEN 400 ELSE peakValue400
             color400      == IF bar THEN 400 ELSE 0
         IN  [state |-> "written",
              channelIndex |-> channelIndex, channelHeight |-> channelHeight,
              localY |-> localY_pixel,
              startSample |-> startSample, endSample |-> endSample,
              maxValue |-> maxValue,
              maskGroupIndex |-> maskGroupIndex, forced |-> isForced,
              brightness |-> IF color400 < maskedPeak400 THEN color400 ELSE maskedPeak400,
              alpha |-> IF bar THEN 1 ELSE 0]

(***************************************************************************)
(* The registry's specification.                                           *)
(***************************************************************************)
RegistryInit ==
    /\ revision \in Revisions
    /\ host \in Hosts
    \* gpuContextManager.js reads neither the user agent nor the preferred format
    /\ revision = "gpuContextManager.js" => ~host.webKit /\ host.preferredFormat = "bgra8unorm"
    /\ matchesHdr = FALSE
    /\ context = NoContext
    /\ listeners = <<>>
    /\ canvases = <<>>
    /\ calls = [adapter |-> 0, device |-> 0]
    /\ log = <<>>
    /\ last = Last("init", "", FALSE, FALSE, NoContext)
    /\ surfaces = Unmounted

Init ==
    /\ RegistryInit
    /\ height = 0
    /\ channelCount = 1
    /\ layout = NoLayout
    /\ kernel = NoInvocation
    /\ NoInstance

Next ==
    \/ configureDevice
    \/ configureDevice_adapter
    \/ configureDevice_device
    \/ configureDevice_device_p6
    \/ \E canvas \in Canvases : configureCanvas(canvas)
    \/ \E canvas \in Canvases : configureCanvas_p6(canvas)
    \/ dynamicRangeChange
    \/ dynamicRangeChange_p6
    \/ \E callback \in Callbacks : onReconfigure(callback)
    \/ \E callback \in Callbacks : offReconfigure(callback)

Spec == Init /\ [][Next]_vars

(***************************************************************************)
(* computeChannelLayout as a pure function: the arguments are drawn from   *)
(* 0..MaxHeight and 1..MaxChannels, the action applies the function.  The  *)
(* registry stands still.                                                  *)
(***************************************************************************)
LayoutInit ==
    /\ RegistryInit
    /\ revision = "part_006"
    /\ host.gpu /\ ~host.webKit
    /\ height \in 0..MaxHeight
    /\ channelCount \in 1..MaxChannels
    /\ layout = NoLayout
    /\ kernel = NoInvocation
    /\ NoInstance

\* const {offsets, heights} = WaveformVisualizer.computeChannelLayout(height, channelCount)
callComputeChannelLayout ==
    /\ layout = NoLayout
    /\ layout' = computeChannelLayout(height, channelCount)
    /\ UNCHANGED <<height, channelCount, kernel, registryVars, instanceVars>>

\* The next call, with other arguments.
nextArguments ==
    /\ layout # NoLayout
    /\ height' \in 0..MaxHeight
    /\ channelCount' \in 1..MaxChannels
    /\ layout' = NoLayout
    /\ UNCHANGED <<kernel, registryVars, instanceVars>>

LayoutNext == callComputeChannelLayout \/ nextArguments

LayoutSpec == LayoutInit /\ [][LayoutNext]_vars

(***************************************************************************)
(* The instance's specification.  The registry (src/gpuContextManager.js)  *)
(* holds the device and has configured the instance's canvas A; the        *)
(* instance's reconfigure callback is cb1.  Init is the state in which the *)
(* constructor returns.                                                    *)
(***************************************************************************)
\* The orchestrators an instance can be given: none, one with unregister,
\* one without (unregister is optional in FrameOrchestratorLike).
Orchestrators ==
    { NoOrchestrator,
      [supplied |-> TRUE, hasUnregister |-> TRUE,  registered |-> FALSE, older |-> "none"],
      [supplied |-> TRUE, hasUnregister |-> FALSE, registered |-> FALSE, older |-> "none"] }

\* this.#groupMask = [0.25, 0.75, 0.5] (src/unnamed/part_004 line 203).  The revision of
\* src/unnamed/part_004 renders every frame and has no dirty flag and no
\* dispose(): of that instance only the mask array and its setter are
\* followed.
InitialGroupMask_p4 == [isNull |-> FALSE, e |-> <<Num(25), Num(75), Num(50)>>, extra |-> FALSE]

\* What the server holds of the instance's dataset: the per-track files,
\* and no default dataset.  Each fetch of a per-track file can still fail.
InstanceServed == { {"track"} \X {"mean.bin", "peak.bin"} }

InstanceInitWith(orchestrators, sizes, ratios) ==
    /\ revision = "gpuContextManager.js"
    /\ host \in { [gpu |-> TRUE, webKit |-> FALSE, preferredFormat |-> "bgra8unorm",
                    served |-> served] : served \in InstanceServed }
    /\ matchesHdr = FALSE
    /\ context = GpuContext("device", "rgba16float", "rec2100-hlg", "rgba16float", "undefined")
    /\ listeners = <<"cb1">>
    /\ canvases = <<"A">>
    /\ calls = [adapter |-> 0, device |-> 0]
    /\ log = <<>>
    /\ last = Last("onReconfigure", "cb1", FALSE, FALSE, context)
    /\ surfaces = Unmounted
    /\ height = 0 /\ channelCount = 1 /\ layout = NoLayout
    /\ kernel = NoInvocation
    /\ orch \in orchestrators
    /\ \E size \in sizes, ratio \in ratios :
          /\ \/ inst = [Constructed("part_003", orch.supplied)
                         EXCEPT !.devicePixelRatio = ratio]
             \/ inst = [Constructed("part_003", orch.supplied)
                         EXCEPT !.phase = "shaders", !.shaderCode = FALSE,
                                !.devicePixelRatio = ratio]
             \/ /\ ~orch.supplied
                /\ inst = [Constructed("part_004", FALSE)
                            EXCEPT !.maskGroup = InitialGroupMask_p4,
                                   !.devicePixelRatio = ratio]
          /\ gpuData = GpuData(size, ratio)
    /\ gpuBuffers = <<>>
    /\ pending = [raf |-> 0, timer |-> 0, setup |-> FALSE]
    /\ statics = InitialStatics
    /\ tally = ZeroTally
    /\ ilast = ILast("constructor", FALSE, FALSE, FALSE, inst)

InstanceInit == InstanceInitWith(Orchestrators, {<<8, 24>>}, {100})

InstanceNext ==
    \/ load_shaders
    \/ setupPipeline_resume
    \/ load_mean
    \/ load_peak
    \/ set_maskGroup
    \/ set_groupMask_p4
    \/ set_channelCount
    \/ set_BOOST
    \/ set_OFFSET
    \/ call_writeParamsBuffer
    \/ resize
    \/ resizeTimeout
    \/ standaloneFrame
    \/ orchestratorFrame
    \/ dispose
    \/ onReconfigureCallback

InstanceSpec == InstanceInit /\ [][InstanceNext]_vars

(***************************************************************************)
(* Construction against the registry: instances are constructed before,    *)
(* while and after the registry acquires its device.                       *)
(***************************************************************************)
ConstructNext ==
    \/ configureDevice
    \/ configureDevice_adapter
    \/ configureDevice_device
    \/ configureDevice_device_p6
    \/ dynamicRangeChange
    \/ dynamicRangeChange_p6
    \/ \E canvas \in Canvases, callback \in Callbacks, found \in BOOLEAN :
          construct(canvas, callback, found)

ConstructSpec == Init /\ [][ConstructNext]_vars

\* Two instances on one registry, on a host with a GPU.
SharedInit == Init /\ host.gpu /\ ~host.webKit

SharedSpec == SharedInit /\ [][SharedNext]_vars

(***************************************************************************)
(* The kernel as a pure function: the inputs of one invocation are drawn   *)
(* from bounded sets, the action applies main.  The registry and the       *)
(* instance stand still.  The inputs come in three families: surfaces of   *)
(* every width up to MaxWidth over datasets of up to MaxSamples samples    *)
(* per channel; surfaces of every height up to MaxHeight for every channel *)
(* count; and a surface of sixteen one-row bands under several masks.      *)
(***************************************************************************)
KernelParams(slice, canvasWidth, canvasHeight, count, length, d, groupMask) ==
    [slice |-> slice, canvasWidth |-> canvasWidth, canvasHeight |-> canvasHeight,
     channelCount |-> count, length |-> length, d |-> d, groupMask |-> groupMask,
     boost |-> InitialStatics.BOOST, offset |-> InitialStatics.OFFSET]

MaskFractions == { <<0, 50, 100>>, <<100, 0, 50>>, <<50, 100, 0>>,
                   <<25, 25, 75>>, <<100, 100, 100>>, <<0, 0, 0>> }

WindowParams ==
    { KernelParams("window", W, 8, C, S * C, d, <<100, 100, 100>>) :
        W \in 1..MaxWidth, S \in 0..MaxSamples, C \in {1, 4}, d \in {1, 2} }

LookupParams ==
    { KernelParams("lookup", 2, H, C, 2 * C, d, <<100, 100, 100>>) :
        H \in 0..MaxHeight, C \in 1..MaxChannels, d \in {1, 2, 3} }

MaskParams ==
    { KernelParams("mask", W, MaxChannels, MaxChannels, 2 * W * MaxChannels, 1, m) :
        W \in 1..MaxWidth, m \in MaskFractions }

\* The invocations of one dispatch: dispatchWorkgroups(ceil(width / 8),
\* ceil(height / 8)) with workgroups of 8 by 8 runs invocations beyond the
\* canvas; one column and one row of them are followed.
Invocation(p, x, y) == [k |-> p @@ [x |-> x, y |-> y], out |-> NoOutput]

KernelInit ==
    /\ RegistryInit
    /\ revision = "gpuContextManager.js"
    /\ host.gpu /\ ~host.webKit
    /\ height = 0
    /\ channelCount = 1
    /\ layout = NoLayout
    /\ NoInstance
    /\ \E p \in WindowParams \cup LookupParams \cup MaskParams :
         /\ \E x \in 0..p.canvasWidth, y \in 0..p.canvasHeight :
              /\ p.slice = "window" => y \in {0, p.canvasHeight - 1}
              /\ p.slice = "lookup" => x = 0
              /\ kernel = Invocation(p, x, y)

\* One invocation runs to its end.
invoke ==
    /\ kernel.out.state = "none"
    /\ kernel' = [kernel EXCEPT !.out = main(kernel.k)]
    /\ UNCHANGED <<height, channelCount, layout, registryVars, instanceVars>>

\* The next invocation of the same dispatch: the neighbour to the right or
\* below.
nextInvocation ==
    /\ kernel.out.state # "none"
    /\ \E dx \in {0, 1}, dy \in {0, 1} :
         /\ dx + dy = 1
         /\ kernel.k.x + dx <= kernel.k.canvasWidth
         /\ kernel.k.y + dy <= kernel.k.canvasHeight
         /\ kernel' = [k |-> [kernel.k EXCEPT !.x = @ + dx, !.y = @ + dy],
                       out |-> NoOutput]
    /\ UNCHANGED <<height, channelCount, layout, registryVars, instanceVars>>

KernelNext == invoke \/ nextInvocation

KernelSpec == KernelInit /\ [][KernelNext]_vars

(***************************************************************************)
(* The instance under fair scheduling: the host runs a requested animation *)
(* frame callback, and an orchestrator holding a participant keeps running *)
(* its frames.  Nothing is assumed about setters, resizes, notifications   *)
(* or dispose().  The instance is constructed with its shader sources,     *)
(* with or without orchestrator.                                           *)
(***************************************************************************)
FrameInit ==
    /\ InstanceInit
    /\ inst = Constructed("part_003", orch.supplied)

FrameNext ==
    \/ load_mean
    \/ load_peak
    \/ set_maskGroup
    \/ set_channelCount
    \/ call_writeParamsBuffer
    \/ resize
    \/ resizeTimeout
    \/ standaloneFrame
    \/ orchestratorFrame
    \/ dispose
    \/ onReconfigureCallback

FrameSpec ==
    /\ FrameInit
    /\ [][FrameNext]_vars
    /\ WF_vars(standaloneFrame)
    /\ WF_vars(orchestratorFrame)

(***************************************************************************)
(* A remount.  The page mounted an instance for a track, and mounts        *)
(* another one for the same track on the same orchestrator before or after *)
(* it disposes of the first.  Both instances use the participant id        *)
(* `waveform-${uuid}` (lines 261-262, 643-644).  inst is the newer         *)
(* instance; of the older one only its dispose() is followed, by what it   *)
(* does to the orchestrator.                                               *)
(***************************************************************************)
\* The orchestrator when the newer instance is constructed: the older
\* instance is mounted, and its participant is held if it became ready.
Remounted ==
    { [supplied |-> TRUE, hasUnregister |-> u, registered |-> FALSE, older |-> o] :
         u \in BOOLEAN, o \in {"registered", "unregistered"} }

RemountInit ==
    /\ InstanceInitWith(Remounted, {<<8, 24>>}, {100})
    /\ inst = Constructed("part_003", TRUE)

\* dispose() of the older instance, lines 720-729: its participant id is
\* set since its constructor, so it calls unregister(id) when the
\* orchestrator has it; unregister removes what is held under the id.
older_dispose ==
    /\ orch.older \in {"registered", "unregistered"}
    /\ \E unregisterThrows \in BOOLEAN :
          orch' = IF orch.hasUnregister /\ ~unregisterThrows
                  THEN [orch EXCEPT !.registered = FALSE, !.older = "disposed"]
                  ELSE [orch EXCEPT !.older = "disposed"]
    /\ ilast' = ILast("older.dispose", FALSE, FALSE, FALSE, inst)
    /\ UNCHANGED <<registryVars, layoutVars, inst, gpuBuffers, gpuData, pending, statics, tally>>

RemountNext ==
    \/ load_mean
    \/ load_peak
    \/ set_maskGroup
    \/ resize
    \/ resizeTimeout
    \/ orchestratorFrame
    \/ dispose
    \/ older_dispose

RemountSpec == RemountInit /\ [][RemountNext]_vars

(***************************************************************************)
(* The buffers of an instance whose canvas changes its size.  The canvas   *)
(* starts at one of ClientSizes (CSS pixels) under one of the device pixel *)
(* ratios; the page lays it out anew at any time, and the ResizeObserver   *)
(* reports it when the instance has one.                                   *)
(***************************************************************************)
\* The page gives the canvas another client size.
layout_canvas ==
    /\ inst.source = "part_003"
    /\ ~inst.disposed
    /\ \E size \in ClientSizes :
          /\ size # <<gpuData.canvas.clientWidth, gpuData.canvas.clientHeight>>
          /\ gpuData' = [gpuData EXCEPT !.canvas.clientWidth = size[1],
                                        !.canvas.clientHeight = size[2]]
    /\ ilast' = ILast("layout", FALSE, FALSE, FALSE, inst)
    /\ UNCHANGED <<registryVars, layoutVars, inst, gpuBuffers, pending, orch, statics, tally>>

BufferInit ==
    /\ InstanceInitWith(Orchestrators, ClientSizes, DevicePixelRatios)
    /\ inst.source = "part_003"

BufferNext ==
    \/ load_shaders
    \/ setupPipeline_resume
    \/ load_mean
    \/ load_peak
    \/ set_channelCount
    \/ layout_canvas
    \/ resize
    \/ resizeTimeout
    \/ standaloneFrame
    \/ orchestratorFrame
    \/ onReconfigureCallback

BufferSpec == BufferInit /\ [][BufferNext]_vars

(***************************************************************************)
(* Dataset loading.  One instance without orchestrator, constructed with   *)
(* the shaders at hand; the server holds any subset of the four dataset    *)
(* files, and each request can fail.  The instance loads, is drawn, and    *)
(* has its channel count set.                                              *)
(***************************************************************************)
LoadInit ==
    /\ revision = "gpuContextManager.js"
    /\ host \in { [gpu |-> TRUE, webKit |-> FALSE, preferredFormat |-> "bgra8unorm",
                    served |-> served] : served \in SUBSET DatasetFiles }
    /\ matchesHdr = FALSE
    /\ context = GpuContext("device", "rgba16float", "rec2100-hlg", "rgba16float", "undefined")
    /\ listeners = <<"cb1">>
    /\ canvases = <<"A">>
    /\ calls = [adapter |-> 0, device |-> 0]
    /\ log = <<>>
    /\ last = Last("onReconfigure", "cb1", FALSE, FALSE, context)
    /\ surfaces = Unmounted
    /\ height = 0 /\ channelCount = 1 /\ layout = NoLayout
    /\ kernel = NoInvocation
    /\ orch = NoOrchestrator
    /\ inst = Constructed("part_003", FALSE)
    /\ gpuBuffers = <<>>
    /\ gpuData = GpuData(<<8, 24>>, 100)
    /\ pending = [raf |-> 0, timer |-> 0, setup |-> FALSE]
    /\ statics = InitialStatics
    /\ tally = ZeroTally
    /\ ilast = ILast("constructor", FALSE, FALSE, FALSE, inst)

LoadNext ==
    \/ load_mean
    \/ load_peak
    \/ set_channelCount
    \/ standaloneFrame

LoadSpec == LoadInit /\ [][LoadNext]_vars

(***************************************************************************)
(* Claims about computeChannelLayout (under LayoutSpec)                    *)
(***************************************************************************)
RECURSIVE SumSeq(_)
SumSeq(s) == IF s = <<>> THEN 0 ELSE Head(s) + SumSeq(Tail(s))

\* C1: for every channel count in 1..16 and every height >= 0 the returned
\* offsets and heights have one entry per channel, no height is negative,
\* the heights sum to the height, offsets[0] = 0, each offset is the
\* previous offset plus the previous height, and two heights differ by at
\* most 1.
C1_LayoutShape ==
    layout # NoLayout =>
        LET o == layout.offsets
            h == layout.heights
        IN  /\ Len(o) = channelCount
            /\ Len(h) = channelCount
            /\ \A i \in 1..channelCount : h[i] >= 0
            /\ SumSeq(h) = height
            /\ o[1] = 0
            /\ \A i \in 1..(channelCount - 1) : o[i + 1] = o[i] + h[i]
            /\ \A i, j \in 1..channelCount : h[i] - h[j] <= 1

\* A layout of 16 channels with a remainder has been computed.
C1_Witness ==
    /\ layout # NoLayout
    /\ channelCount = MaxChannels
    /\ height = 37

\* The channel indices in the order floor(C/2)-1, floor(C/2), floor(C/2)-2,
\* floor(C/2)+1, ...: left of center, then right, walking outward.
CenterWalk(c) ==
    [k \in 1..(2 * c) |->
        IF k % 2 = 1 THEN (c \div 2) - 1 - ((k - 1) \div 2)
        ELSE (c \div 2) + ((k - 2) \div 2)]

ValidCenterWalk(c) == SelectSeq(CenterWalk(c), LAMBDA i : i >= 0 /\ i < c)

\* C2: height floor(H/C)+1 goes to exactly the first (H mod C) valid indices
\* of the center walk and floor(H/C) to every other channel; the layout of
\* (10, 4) is offsets [0,2,5,8], heights [2,3,3,2]; every height of (16, 16)
\* is 1.
C2_CenterOutward ==
    layout # NoLayout =>
        LET walk     == ValidCenterWalk(channelCount)
            favoured == {walk[j] : j \in 1..(height % channelCount)}
        IN  /\ \A i \in 0..(channelCount - 1) :
                  layout.heights[i + 1] =
                      (height \div channelCount) + (IF i \in favoured THEN 1 ELSE 0)
            /\ (height = 10 /\ channelCount = 4) =>
                  layout = [offsets |-> <<0, 2, 5, 8>>, heights |-> <<2, 3, 3, 2>>]
            /\ (height = 16 /\ channelCount = 16) =>
                  \A i \in 1..16 : layout.heights[i] = 1

\* The layout of (10, 4) has been computed, with the extra pixels on the two
\* center channels.
C2_Witness ==
    /\ layout # NoLayout
    /\ height = 10
    /\ channelCount = 4
    /\ layout.heights = <<2, 3, 3, 2>>

(***************************************************************************)
(* Claims about GpuContextManager (under Spec)                             *)
(***************************************************************************)
PairOf(ctx) == <<ctx.format, ctx.colorSpace>>

\* The capability-change handler ran with the device acquired.
HandlerRan == last.op = "change" /\ last.before # NoContext

CallbackCount(cb) ==
    Cardinality({i \in 1..Len(log) : log[i].type = "callback" /\ log[i].who = cb})

NoCallback == \A i \in 1..Len(log) : log[i].type # "callback"

\* The handler's loop reached canvas c: it called configure on it and
\* logged either "Reconfig done" or "Reconfigure failed".
Reached(c) ==
    /\ \E i \in 1..Len(log) : log[i].type = "configure" /\ log[i].who = c
    /\ \E i \in 1..Len(log) : log[i].type \in {"done", "failed"} /\ log[i].who = c

\* C3: if reconfiguring one registered surface throws after a capability
\* change, the error is caught, every other registered surface is still
\* reconfigured and every subscriber is still notified for that change.
C3_Isolation ==
    (HandlerRan /\ \E i \in 1..Len(log) : log[i].type = "failed") =>
        /\ ~last.threw
        /\ \A c \in Elements(canvases) : Reached(c)
        /\ \A cb \in Elements(listeners) : CallbackCount(cb) >= 1

\* Surface A failed, surface B was reconfigured after it, both subscribers
\* were notified.
C3_Witness ==
    /\ HandlerRan
    /\ \E i, j \in 1..Len(log) :
          /\ i < j
          /\ log[i].type = "failed" /\ log[i].who = "A"
          /\ log[j].type = "done" /\ log[j].who = "B"
    /\ \A cb \in Callbacks : CallbackCount(cb) >= 1

\* C4 as stated: the handler sets the HDR flag and re-runs the selection;
\* surfaces are reconfigured and subscribers notified only if the selected
\* pair differs from the previous one, and no callback is invoked when it
\* is the same.
C4_Original ==
    HandlerRan =>
        /\ context.isHighDynamicRange = Bool2Str(matchesHdr)
        /\ PairOf(context) = PairOf(last.before) => NoCallback

\* C4 as amended: the handler sets the HDR flag to the new value, re-runs
\* the selection (on a temporary canvas in part_006, on every registered
\* canvas in gpuContextManager.js), reconfigures every registered surface
\* and notifies every subscriber, whether or not the selected pair differs
\* from the previous one.
C4_Amended ==
    HandlerRan =>
        /\ context.isHighDynamicRange = Bool2Str(matchesHdr)
        /\ revision = "part_006" =>
              \E i \in 1..Len(log) : log[i].type = "configure" /\ log[i].who = "probe"
        /\ \A c \in Elements(canvases) : Reached(c)
        /\ \A cb \in Elements(listeners) : CallbackCount(cb) >= 1

\* A capability change that selected the pair already in force, and still
\* reconfigured a surface and notified both subscribers.
C4_Witness ==
    /\ HandlerRan
    /\ context.format # "null"
    /\ PairOf(context) = PairOf(last.before)
    /\ \E c \in Elements(canvases) : Reached(c)
    /\ \A cb \in Callbacks : CallbackCount(cb) >= 1

\* C5: when a capability change alters the configuration, every registered
\* surface is reconfigured before any subscriber is invoked, and each
\* subscriber is invoked exactly once for that change.
C5_ReconfigureThenNotifyOnce ==
    (HandlerRan /\ PairOf(context) # PairOf(last.before)) =>
        /\ \A i, j \in 1..Len(log) :
              (log[i].type = "callback" /\ log[j].type = "configure" /\ log[j].who \in Canvases)
                  => j < i
        /\ \A cb \in Elements(listeners) : CallbackCount(cb) = 1

\* C6: a successful configureCanvas(surface) adds the surface to the
\* registered set and invokes every subscribed callback exactly once, with
\* the updated context, if and only if the call changed the registry's
\* (format, colorSpace); a call that leaves the pair unchanged invokes none.
C6_ConfigureCanvasBroadcast ==
    (last.op = "configureCanvas" /\ ~last.threw) =>
        /\ last.who \in Elements(canvases)
        /\ IF PairOf(context) # PairOf(last.before)
           THEN /\ \A cb \in Elements(listeners) : CallbackCount(cb) = 1
                /\ \A i \in 1..Len(log) : log[i].type = "callback" =>
                      /\ log[i].who \in Elements(listeners)
                      /\ <<log[i].format, log[i].colorSpace>> = PairOf(context)
           ELSE NoCallback

\* A configureCanvas call that changed an already set pair and notified
\* both subscribers.
C6_Witness ==
    /\ last.op = "configureCanvas" /\ ~last.threw
    /\ last.before.format # "null"
    /\ PairOf(context) # PairOf(last.before)
    /\ \A cb \in Callbacks : CallbackCount(cb) = 1

\* The preference lists, written out pair by pair as the two loops visit
\* them; (rgba8unorm, rec2100-hlg) is in none of them.
RootOrder ==
    << <<"rgba16float", "rec2100-hlg">>, <<"rgba16float", "display-p3">>,
       <<"rgba16float", "srgb">>,
       <<"rgba8unorm", "display-p3">>, <<"rgba8unorm", "srgb">> >>

QualityFirstOrder ==
    << <<"rgba16float", "rec2100-hlg">>, <<"rgba16float", "display-p3">>,
       <<"rgba16float", "srgb">>,
       <<"bgra8unorm", "rec2100-hlg">>, <<"bgra8unorm", "display-p3">>,
       <<"bgra8unorm", "srgb">>,
       <<"bgra8unorm", "rec2100-hlg">>, <<"bgra8unorm", "display-p3">>,
       <<"bgra8unorm", "srgb">>,
       <<"rgba8unorm", "display-p3">>, <<"rgba8unorm", "srgb">> >>

WebKitOrder ==
    << <<"bgra8unorm", "display-p3">>, <<"bgra8unorm", "srgb">>,
       <<"bgra8unorm", "rec2100-hlg">>,
       <<"bgra8unorm", "display-p3">>, <<"bgra8unorm", "srgb">>,
       <<"bgra8unorm", "rec2100-hlg">>,
       <<"rgba8unorm", "display-p3">>, <<"rgba8unorm", "srgb">>,
       <<"rgba16float", "display-p3">>, <<"rgba16float", "srgb">>,
       <<"rgba16float", "rec2100-hlg">> >>

PreferenceOrder ==
    IF revision = "gpuContextManager.js" THEN RootOrder
    ELSE IF host.webKit THEN WebKitOrder ELSE QualityFirstOrder

\* The last operation probed: configureCanvas in gpuContextManager.js,
\* the end of configureDevice and the change handler in part_006.
ProbeRan ==
    \/ revision = "gpuContextManager.js" /\ last.op = "configureCanvas" /\ last.before # NoContext
    \/ revision = "part_006" /\ (last.created \/ HandlerRan)

ProbeWho == IF revision = "gpuContextManager.js" THEN last.who ELSE "probe"

\* The configure calls of the two loops, in order.
ProbeCalls ==
    SelectSeq(log, LAMBDA e : e.type = "configure" /\ e.who = ProbeWho /\ e.colorSpace # "default")

\* The calls follow the preference order from its start, every call but
\* the last was rejected, and the excluded pair was never tried.
ProbedInOrder ==
    /\ Len(ProbeCalls) <= Len(PreferenceOrder)
    /\ \A i \in 1..Len(ProbeCalls) :
          /\ <<ProbeCalls[i].format, ProbeCalls[i].colorSpace>> = PreferenceOrder[i]
          /\ i < Len(ProbeCalls) => ~ProbeCalls[i].ok
    /\ \A i \in 1..Len(log) :
          ~(log[i].type = "configure" /\ log[i].format = "rgba8unorm"
                /\ log[i].colorSpace = "rec2100-hlg")

ProbeHit == Len(ProbeCalls) > 0 /\ ProbeCalls[Len(ProbeCalls)].ok

\* C7 as stated: probing selects the first pair of the preference order
\* (formats outer, colour spaces inner) the surface accepts and never
\* attempts (rgba8unorm, rec2100-hlg); if the surface accepts no pair the
\* result is the fallback (rgba8unorm, srgb); afterwards the registry's
\* format and colorSpace equal the selected pair.
C7_Original ==
    ProbeRan =>
        /\ ProbedInOrder
        /\ IF ProbeHit
           THEN PairOf(context) =
                   <<ProbeCalls[Len(ProbeCalls)].format, ProbeCalls[Len(ProbeCalls)].colorSpace>>
           ELSE /\ Len(ProbeCalls) = Len(PreferenceOrder)
                /\ PairOf(context) = <<"rgba8unorm", "srgb">>

\* C7 as amended: as stated, except that in gpuContextManager.js the
\* fallback is itself applied with a configure call naming only the format
\* rgba8unorm; if the surface rejects that call too, configureCanvas throws
\* and the registry's format and colorSpace stay as they were.
C7_Amended ==
    ProbeRan =>
        /\ ProbedInOrder
        /\ IF ProbeHit
           THEN PairOf(context) =
                   <<ProbeCalls[Len(ProbeCalls)].format, ProbeCalls[Len(ProbeCalls)].colorSpace>>
           ELSE /\ Len(ProbeCalls) = Len(PreferenceOrder)
                /\ IF revision = "gpuContextManager.js" /\ last.threw
                   THEN /\ context = last.before
                        /\ \E i \in 1..Len(log) :
                              /\ log[i].type = "configure" /\ log[i].colorSpace = "default"
                              /\ log[i].format = "rgba8unorm" /\ ~log[i].ok
                   ELSE PairOf(context) = <<"rgba8unorm", "srgb">>

\* A probe that saw its first pairs rejected, passed the place of the
\* excluded pair and took (rgba8unorm, display-p3).
C7_Witness ==
    /\ ProbeRan /\ ProbeHit
    /\ Len(ProbeCalls) >= 4
    /\ PairOf(context) = <<"rgba8unorm", "display-p3">>

\* C8: once configureDevice has completed successfully, a further call is a
\* no-op: it requests neither adapter nor device, the GpuContext and its
\* device, format and colorSpace are unchanged, and no subscriber is invoked.
C8_Idempotent ==
    (last.op = "configureDevice" /\ last.before # NoContext) =>
        /\ last.who = "returned"
        /\ ~last.threw /\ ~last.created
        /\ context = last.before
        /\ NoCallback

\* A second configureDevice with a subscriber present and a pair in force.
C8_Witness ==
    /\ last.op = "configureDevice" /\ last.before # NoContext
    /\ context.format # "null"
    /\ Len(listeners) > 0

\* C9: configureDevice fails when the graphics API is absent or no adapter
\* can be obtained and then leaves the registry uninitialized (the context
\* accessor still throws, no subscriber is invoked); when it succeeds it
\* establishes a GpuContext holding the device with format and colorSpace
\* both unset.
C9_FailureAndFreshContext ==
    /\ (last.op = "configureDevice" /\ ~host.gpu) =>
          last.threw /\ contextThrows /\ NoCallback
    /\ (last.op = "configureDevice:adapter" /\ last.who = "threw") =>
          /\ last.threw /\ context = last.before /\ NoCallback
          /\ last.before = NoContext => contextThrows
    /\ last.created =>
          /\ ~last.threw
          /\ context.device = "device"
          /\ context.format = "null" /\ context.colorSpace = "null"

ListedPairs == {PreferenceOrder[i] : i \in 1..Len(PreferenceOrder)} \cup {<<"rgba8unorm", "srgb">>}

UnsetOrListed(format, colorSpace) ==
    \/ format = "null" /\ colorSpace = "null"
    \/ <<format, colorSpace>> \in ListedPairs

\* C10: between registry operations and inside every subscriber callback,
\* the GpuContext's format and colorSpace are both unset or both set, and
\* when set the pair is one of the preference list or the fallback pair,
\* never (rgba8unorm, rec2100-hlg).
C10_PairInvariant ==
    /\ UnsetOrListed(context.format, context.colorSpace)
    /\ PairOf(context) # <<"rgba8unorm", "rec2100-hlg">>
    /\ \A i \in 1..Len(log) : log[i].type = "callback" =>
          /\ UnsetOrListed(log[i].format, log[i].colorSpace)
          /\ <<log[i].format, log[i].colorSpace>> # <<"rgba8unorm", "rec2100-hlg">>

\* The fallback pair reached through the fallback branch, and handed to a
\* subscriber.
C10_Witness ==
    /\ PairOf(context) = <<"rgba8unorm", "srgb">>
    /\ \E i \in 1..Len(log) : log[i].type = "configure" /\ log[i].colorSpace = "default" /\ log[i].ok
    /\ \E i \in 1..Len(log) : log[i].type = "callback" /\ log[i].format = "rgba8unorm"

\* A broadcast is a maximal run of callback events in `log`.
OncePerBroadcast(events) ==
    \A i, j \in 1..Len(events) :
        (i < j /\ events[i].type = "callback" /\ events[j].type = "callback"
               /\ events[i].who = events[j].who)
            => \E k \in i..j : events[k].type # "callback"

\* C11: the subscribers form a set: subscribing a callback again leaves one
\* entry and one invocation per broadcast, unsubscribing a callback that is
\* not subscribed changes nothing, and after offReconfigure(cb) no later
\* broadcast invokes cb (a broadcast invokes only callbacks subscribed when
\* the operation began).
C11_SubscriberSet ==
    [][ /\ last'.op = "onReconfigure" =>
              /\ last'.who \in Elements(listeners) => listeners' = listeners
              /\ last'.who \in Elements(listeners')
        /\ last'.op = "offReconfigure" =>
              /\ last'.who \notin Elements(listeners) => listeners' = listeners
              /\ last'.who \notin Elements(listeners')
        /\ Cardinality(Elements(listeners')) = Len(listeners')
        /\ \A i \in 1..Len(log') :
              log'[i].type = "callback" => log'[i].who \in Elements(listeners)
        /\ OncePerBroadcast(log')
      ]_vars

\* A capability change, with cb2 the only subscriber left, invoked cb2 and
\* not cb1.
C11_Witness ==
    /\ HandlerRan
    /\ listeners = <<"cb2">>
    /\ CallbackCount("cb2") >= 1
    /\ CallbackCount("cb1") = 0

(***************************************************************************)
(* Claims about the WaveformVisualizer instance (under InstanceSpec)       *)
(***************************************************************************)
\* The buffers the fields of i hold.
Held(i) ==
    {i.paramsBuffer, i.channelLayoutBuffer, i.waveformDataBuffer,
     i.backgroundDataBuffer, i.computeOutputBuffer} \ {0}

\* What the claim holds fixed across every number of dispose() calls: no
\* buffer is destroyed twice, the buffers held when dispose() ran are
\* destroyed, unregister ran at most once and offReconfigure exactly once,
\* and no call raised.
DisposedOnce ==
    /\ \A b \in 1..Len(gpuBuffers) : gpuBuffers[b] <= 1
    /\ tally.unregisters <= 1
    /\ tally.disposes >= 1 => tally.offs = 1 /\ "cb1" \notin Elements(listeners)
    /\ ilast.op = "dispose" =>
          /\ ~ilast.threw
          /\ \A b \in Held(ilast.before) : gpuBuffers[b] = 1
          /\ Held(inst) = {}

\* C12: disposal is idempotent: over any number of dispose() calls each
\* owned buffer is destroyed once, unregister is called at most once and
\* the registry unsubscription happens once; every call after the first
\* changes no instance, registry or orchestrator state and raises no error.
C12_DisposeIdempotent ==
    /\ DisposedOnce
    /\ (ilast.op = "dispose" /\ ilast.before.disposed) => inst = ilast.before

\* C13: dispose() cancels every host-side callback the instance has pending
\* (the standalone refresh callback and the debounced resize timer): once
\* the instance is disposed none is pending, none runs instance logic, and
\* the dirty flag is not set by one.
C13_DisposeCancelsCallbacks ==
    inst.disposed =>
        /\ pending.raf = 0
        /\ pending.timer = 0
        /\ (ilast.op \in {"resizeTimeout", "standaloneFrame"} /\ ilast.before.disposed) =>
              inst = ilast.before /\ ~inst.needsRender

\* C14: after dispose() no GPU buffer the instance ever created remains
\* un-destroyed, whatever resizes, channel-count changes and
\* reconfiguration notifications came before.
C14_NoBufferLeft ==
    inst.disposed => \A b \in 1..Len(gpuBuffers) : gpuBuffers[b] >= 1

\* The last operation was a dispose() in which the orchestrator's
\* unregister was called and threw: the participant is still registered.
UnregisterThrewInDispose ==
    /\ ilast.op = "dispose"
    /\ ilast.before.orchestrator /\ ilast.before.orchestratorParticipantId
    /\ orch.hasUnregister
    /\ orch.registered

\* C15: if the orchestrator's unregister throws during dispose(), dispose()
\* does not throw and completes the remaining steps: the instance's
\* callback is removed from the registry's subscribers and the instance
\* ends disposed.
C15_UnregisterFailureTolerated ==
    UnregisterThrewInDispose =>
        /\ ~ilast.threw
        /\ inst.disposed
        /\ "cb1" \notin Elements(listeners)
        /\ ~inst.onReconfigureCallback /\ ~inst.gpuContextManager
        /\ ~inst.orchestrator /\ ~inst.orchestratorParticipantId

\* dispose() of a ready, registered instance whose unregister threw.
C15_Witness ==
    /\ UnregisterThrewInDispose
    /\ ilast.before.phase = "ready" /\ ilast.before.isRegistered
    /\ ~ilast.before.disposed

\* The last operation was a successful call on a ready instance.
OnReady == ilast.before.phase = "ready" /\ ~ilast.before.disposed /\ ~ilast.threw

\* C16 as stated: once an instance is ready, every successful mutation of
\* boost, offset, a mask-group entry, the channel count or the surface size
\* sets the instance's dirty flag.
C16_Original ==
    (OnReady /\ ilast.op \in {"set BOOST", "set OFFSET", "set maskGroup",
                               "set channelCount", "resizeTimeout"})
        => inst.needsRender

\* C16 as amended: once an instance is ready, every successful mutation of
\* a mask-group entry, the channel count or the surface size sets the dirty
\* flag; boost and offset are static fields whose assignment touches no
\* instance, and the dirty flag is set when writeParamsBuffer() is called
\* after it.
C16_Amended ==
    /\ (OnReady /\ ilast.op \in {"set maskGroup", "set channelCount", "resizeTimeout",
                                  "writeParamsBuffer"})
          => inst.needsRender
    /\ ilast.op \in {"set BOOST", "set OFFSET"} => inst = ilast.before

\* A mask-group entry was set on a ready instance whose dirty flag was
\* clear, and the flag is set.
C16_Witness ==
    /\ OnReady /\ ilast.op = "set maskGroup"
    /\ ~ilast.before.needsRender
    /\ inst.needsRender
    /\ inst.maskGroup # ilast.before.maskGroup

\* The arguments the setters are specified to reject: a mask index that is
\* not the number 0, 1 or 2, a mask value that is not a number in [0, 1],
\* a channel count that is not an integer in [1, 16].
IsNumberIn(x, lo, hi) == x.t = "number" /\ ~x.nan /\ lo <= x.v /\ x.v <= hi
RejectedArgument(op, arg) ==
    \/ /\ op = "set maskGroup"
       /\ \/ ~(arg[1].t = "number" /\ ~arg[1].nan /\ arg[1].v \in {0, 100, 200})
          \/ ~IsNumberIn(arg[2], 0, 100)
    \/ /\ op = "set channelCount"
       /\ ~(IsNumberIn(arg[1], 100, 1600) /\ arg[1].v % 100 = 0)

\* C17: a setter called with an invalid argument (a mask index that is not
\* 0, 1 or 2, a mask value that is not a number in [0, 1], a channel count
\* that is not an integer in [1, 16]) throws before it mutates anything:
\* the instance (mask array, channel count, dirty flag), the GPU buffers
\* and the scheduled callbacks are unchanged.
C17_InvalidArgumentThrows ==
    [][(/\ ilast' # ilast
        /\ ilast'.op \in {"set maskGroup", "set channelCount"}
        /\ RejectedArgument(ilast'.op, ilast'.arg))
         => /\ ilast'.threw
            /\ UNCHANGED <<inst, gpuBuffers, pending>>]_vars

\* The operations of the claims that mutate a render parameter.
Mutations == {"set maskGroup", "set channelCount", "resizeTimeout"}

\* C18: an instance without an orchestrator has at most one refresh
\* callback pending; the callback submits only when the instance is dirty
\* and not disposed, and clears the dirty flag when it submits; after a
\* mutation of a ready instance exactly one callback is pending however
\* many mutations came before it, and after the callback's submission none
\* is pending: the mutations between two refresh cycles make one submission.
C18_StandaloneRefresh ==
    (inst.source = "part_003" /\ ~orch.supplied) =>
        /\ pending.raf <= 1
        /\ inst.standaloneRafId <=> pending.raf = 1
        /\ ilast.submitted =>
              /\ ilast.op = "standaloneFrame"
              /\ ilast.before.needsRender /\ ~ilast.before.disposed
              /\ ~inst.needsRender
              /\ pending.raf = 0
        /\ (OnReady /\ ilast.op \in Mutations) =>
              inst.needsRender /\ pending.raf = 1
        /\ (~inst.disposed /\ inst.phase = "ready" /\ inst.needsRender) => pending.raf = 1

\* The refresh callback of a ready instance without an orchestrator has
\* made one submission, with the two passes encoded, for several mutations.
C18_Witness ==
    /\ inst.source = "part_003" /\ ~orch.supplied
    /\ ilast.op = "standaloneFrame" /\ ilast.submitted /\ ilast.encoded
    /\ ilast.marks = "many"
    /\ ilast.before.phase = "ready"
    /\ ~inst.needsRender /\ pending.raf = 0

\* C19: an instance given an orchestrator registers a single participant;
\* the participant's wantsFrame() is true exactly when the dirty flag is
\* set, and its encode() clears the flag; while the orchestrator is
\* attached no refresh callback of the instance is scheduled and the
\* instance submits nothing to the device queue itself.
C19_OrchestratedParticipant ==
    (inst.source = "part_003" /\ orch.supplied) =>
        /\ tally.registers <= 1
        /\ ilast.op \in {"encode", "wantsFrame"} =>
              (ilast.op = "encode" <=> ilast.before.needsRender)
        /\ ilast.op = "encode" => ~inst.needsRender
        /\ inst.orchestrator => pending.raf = 0 /\ ~inst.standaloneRafId
        /\ ilast.before.orchestrator => ~ilast.submitted

\* Both datasets are loaded and both pipelines are built.
LoadedAndBuilt(i) == i.waveformData /\ i.backgroundData /\ i.pipelines

\* C20: an instance registers with the orchestrator, and encodes a compute
\* and a display pass, only after its mean and peak datasets have been
\* loaded and its compute and display pipelines have been built, also when
\* reconfigure callbacks or setter calls arrive while it is loading.
C20_OnlyWhenReady ==
    inst.source = "part_003" =>
        /\ (inst.isRegistered \/ orch.registered \/ tally.registers > 0) =>
              inst.phase = "ready"
        /\ (ilast.op = "load_peak" /\ ~ilast.threw) =>
              LoadedAndBuilt(inst) /\ inst.phase = "ready"
        /\ inst.phase = "ready" => ilast.op = "load_peak" \/ ilast.before.phase = "ready"
        /\ ilast.encoded => ilast.before.phase = "ready" /\ LoadedAndBuilt(ilast.before)

\* A channel count was set while peak.bin was loading, which created the
\* first pipeline buffers and failed on the missing dataset; the loading
\* then finished, and only then the instance registered with the
\* orchestrator.
C20_Witness ==
    /\ inst.source = "part_003" /\ orch.supplied
    /\ ilast.op = "load_peak" /\ ~ilast.threw
    /\ ilast.before.channelCount # 1 /\ ilast.before.paramsBuffer # 0
    /\ ~ilast.before.pipelines /\ ~ilast.before.isRegistered
    /\ inst.isRegistered /\ orch.registered /\ tally.registers = 1
    /\ LoadedAndBuilt(inst)

\* C21: when a required fetch has failed during loading (a shader, or a
\* dataset at both its locations), the instance never registers with the
\* orchestrator and never submits to the device queue, whatever reconfigure
\* callbacks and setter calls follow, and the registry's context and
\* registered surfaces are as they were.
C21_FailedLoadNotRunnable ==
    (inst.source = "part_003" /\ inst.phase = "failed") =>
        /\ ~inst.isRegistered /\ ~orch.registered /\ tally.registers = 0
        /\ ilast.before.phase = "failed" => ~ilast.submitted /\ ~ilast.encoded
        /\ context = GpuContext("device", "rgba16float", "rec2100-hlg", "rgba16float", "undefined")
        /\ canvases = <<"A">>

\* C22: a constructor call that finds no canvas, or that is made while the
\* registry holds no device, throws inside the call and leaves the registry
\* as it was: no canvas is added to the registered set, no callback to the
\* subscribers, and the context is untouched.
C22_ConstructionFailure ==
    [][(/\ last' # last
        /\ last'.op = "constructor"
        /\ last'.who = "null" \/ context = NoContext)
         => /\ last'.threw
            /\ UNCHANGED <<context, canvases, listeners>>]_vars

\* A constructor that found its canvas threw because the registry holds no
\* device yet, while an earlier instance's device request is still
\* outstanding; nothing is registered.
C22_Witness ==
    /\ last.op = "constructor" /\ last.threw
    /\ last.who # "null"
    /\ last.before = NoContext /\ context = NoContext
    /\ calls.adapter > 0
    /\ canvases = <<>> /\ listeners = <<>>

\* The resize timer rebuilt the size-dependent buffers: the old output and
\* layout buffers are destroyed and new ones are in their place.
Rebuilt ==
    /\ inst.computeOutputBuffer \notin {0, ilast.before.computeOutputBuffer}
    /\ inst.channelLayoutBuffer \notin {0, ilast.before.channelLayoutBuffer}
    /\ gpuBuffers[ilast.before.computeOutputBuffer] = 1
    /\ gpuBuffers[ilast.before.channelLayoutBuffer] = 1

\* C23: resize notifications are debounced.  At most one resize timer is
\* pending at any time; a notification leaves exactly one pending, the one
\* it set, so the rebuild waits for the quiet window after the most recent
\* notification; when the timer of a live instance fires, however many
\* notifications it stands for, the buffers are rebuilt once, the dirty
\* flag is set, and no timer is left.
C23_ResizeDebounced ==
    inst.source = "part_003" =>
        /\ pending.timer <= 1
        /\ pending.timer = 1 <=> tally.notes # "none"
        /\ ilast.op = "resize" => pending.timer = 1 /\ inst = ilast.before
        /\ (ilast.op = "resizeTimeout" /\ ~ilast.before.disposed) =>
              /\ ilast.notes # "none"
              /\ Rebuilt
              /\ inst.needsRender
              /\ pending.timer = 0

\* The timer of a ready instance whose dirty flag was clear has fired after
\* several notifications: one rebuild, the flag set, no timer left.
C23_Witness ==
    /\ inst.source = "part_003"
    /\ ilast.op = "resizeTimeout" /\ ilast.notes = "many"
    /\ ~ilast.before.disposed /\ ~ilast.before.needsRender
    /\ Rebuilt
    /\ inst.needsRender
    /\ pending.timer = 0

(***************************************************************************)
(* Claims about the compute kernel, checked under KernelSpec.              *)
(***************************************************************************)
\* The invocation has written its pixel.
Written == kernel.out.state = "written"

\* The largest of the samples lo..hi-1 of channel c, 0 for an empty window.
RECURSIVE WindowMax(_, _, _, _, _)
WindowMax(d, lo, hi, count, c) ==
    IF lo >= hi THEN 0
    ELSE LET rest == WindowMax(d, lo + 1, hi, count, c)
             v    == Waveform(d, lo * count + c)
         IN  IF v > rest THEN v ELSE rest

\* C24: the invocation of column x of a surface W wide over S samples per
\* channel reduces the window [floor(x*S/W), floor((x+1)*S/W)) -- so that
\* the windows of the columns 0..W-1 are disjoint, contiguous and cover
\* [0, S) -- and its reduced value is the largest sample of that window.
C24_WindowPartition ==
    Written =>
        LET k == kernel.k
            S == k.length \div k.channelCount
        IN  /\ kernel.out.startSample = (k.x * S) \div k.canvasWidth
            /\ kernel.out.endSample = ((k.x + 1) * S) \div k.canvasWidth
            /\ kernel.out.maxValue =
                  WindowMax(k.d, (k.x * S) \div k.canvasWidth,
                            ((k.x + 1) * S) \div k.canvasWidth,
                            k.channelCount, kernel.out.channelIndex)

\* The channels whose band, in the layout computeChannelLayout returns for
\* (H, C), holds row y.
BandsHolding(H, C, y) ==
    LET lay == computeChannelLayout(H, C)
    IN  { i \in 0..(C - 1) :
            lay.offsets[i + 1] <= y /\ y < lay.offsets[i + 1] + lay.heights[i + 1] }

\* C25: for the layout of (H, C), C in 1..16, and every row y in 0..H-1,
\* exactly one channel's band holds y and the kernel's lookup selects that
\* channel; a channel of height 0 is never selected.
C25_LookupSelectsTheBand ==
    Written =>
        LET k == kernel.k
        IN  /\ BandsHolding(k.canvasHeight, k.channelCount, k.y) = {kernel.out.channelIndex}
            /\ kernel.out.channelHeight > 0

\* A row of a surface lower than its channel count, where some bands have
\* height 0, has been looked up and found in a band after the first.
C25_Witness ==
    /\ Written
    /\ kernel.k.canvasHeight < kernel.k.channelCount
    /\ kernel.out.channelIndex > 0
    /\ computeChannelLayout(kernel.k.canvasHeight, kernel.k.channelCount).heights[1] = 0

\* Mask fractions, in hundredths, a fraction can be raised to.
RaisedFractions == {0, 10, 25, 33, 50, 66, 75, 90, 100}

\* C26: channels 0..3 use mask group 0, channels 4..8 group 1, channels
\* 9..15 group 2; the pixel of column x of a surface W wide is forced (its
\* brightness limit set to 1.0, so that a bar pixel is written at full
\* brightness) exactly when x / W is greater than its group's fraction;
\* under a higher fraction no pixel is forced that was not forced before,
\* and under the fraction 1 none is.
C26_MaskGroups ==
    Written =>
        LET k == kernel.k
            c == kernel.out.channelIndex
            g == kernel.out.maskGroupIndex
            f == k.groupMask[g + 1]
        IN  /\ c \in 0..3  => g = 0
            /\ c \in 4..8  => g = 1
            /\ c \in 9..15 => g = 2
            /\ kernel.out.forced <=> (100 * k.x > f * k.canvasWidth)
            /\ (kernel.out.forced /\ kernel.out.alpha = 1) => kernel.out.brightness = 400
            /\ \A raised \in RaisedFractions :
                  (raised >= f /\ forced(k.x, k.canvasWidth, raised)) => kernel.out.forced
            /\ ~forced(k.x, k.canvasWidth, 100)

\* A bar pixel of a channel of the third group has been forced under a
\* fraction strictly between 0 and 1, while the other groups' fractions
\* would not have forced it.
C26_Witness ==
    /\ Written
    /\ kernel.out.maskGroupIndex = 2
    /\ kernel.out.forced
    /\ kernel.out.alpha = 1
    /\ kernel.k.groupMask[3] \in 1..99
    /\ ~forced(kernel.k.x, kernel.k.canvasWidth, kernel.k.groupMask[1])

\* The invocation of the same column at the mirrored row of the same band:
\* row h - 1 - r for row r of a band of height h.
Mirrored ==
    [kernel.k EXCEPT !.y = (@ - kernel.out.localY)
                           + (kernel.out.channelHeight - 1 - kernel.out.localY)]

\* C27: within a band of height h the rows marked as bar (alpha 1) for a
\* column are mirror-symmetric about the band's mid-line -- row r is marked
\* if and only if row h - 1 - r is -- and every marked row lies in the
\* band, for every reduced value, those above 1 included.
C27_BarSymmetric ==
    Written =>
        /\ kernel.out.localY \in 0..(kernel.out.channelHeight - 1)
        /\ main(Mirrored).channelIndex = kernel.out.channelIndex
        /\ main(Mirrored).maxValue = kernel.out.maxValue
        /\ main(Mirrored).alpha = kernel.out.alpha

(***************************************************************************)
(* Claims about dataset loading, checked under LoadSpec.                   *)
(***************************************************************************)
\* The instance has finished its initialization and is not disposed.
Ready == inst.phase = "ready" /\ ~inst.disposed

\* C28: in every reachable state of a ready instance the element counts of
\* the mean array and of the peak array are exact multiples of the
\* instance's channel count, also after the channelCount setter ran.
C28_ElementCountDivisible ==
    Ready =>
        /\ ElementCount(inst.waveformDataFrom) % inst.channelCount = 0
        /\ ElementCount(inst.backgroundDataFrom) % inst.channelCount = 0

\* The fetch at position n of the log is of the default location.
DefaultFetch(n) == tally.fetched[n][1] = "default"

\* C29: the default location of a file is fetched only after the per-track
\* fetch of that file failed, and the instance ends up with both per-track
\* files or both default files, never with a mean file from one location
\* and a peak file from the other.
C29_OnePair ==
    /\ \A n \in 1..Len(tally.fetched) :
          DefaultFetch(n) =>
              /\ n > 1
              /\ tally.fetched[n - 1] = <<"track", tally.fetched[n][2]>>
              /\ inst.waveformDataFrom = "track" => tally.fetched[n][2] # "mean.bin"
              /\ inst.backgroundDataFrom = "track" => tally.fetched[n][2] # "peak.bin"
    /\ (inst.waveformData /\ inst.backgroundData) =>
          inst.waveformDataFrom = inst.backgroundDataFrom

(***************************************************************************)
(* The symmetry of computeChannelLayout, checked under LayoutSpec.         *)
(***************************************************************************)
\* C30: for every channel count C in 1..16 and every height H >= 0 whose
\* remainder H mod C is even, the heights computeChannelLayout returns are
\* a palindrome: heights[i] = heights[C-1-i] for every i.
C30_HeightsPalindrome ==
    (layout # NoLayout /\ (height % channelCount) % 2 = 0) =>
        \A i \in 1..channelCount :
            layout.heights[i] = layout.heights[channelCount + 1 - i]

(***************************************************************************)
(* Claims about the instance's frames, checked under FrameSpec and         *)
(* InstanceSpec.                                                           *)
(***************************************************************************)
\* A ready, not disposed instance of src/unnamed/part_003 whose dirty flag
\* is set.
ReadyAndDirty ==
    inst.source = "part_003" /\ Ready /\ inst.needsRender

\* The last step was a frame that encoded both passes and cleared the flag.
FrameEncoded ==
    /\ ilast.op \in {"standaloneFrame", "encode"}
    /\ ilast.encoded
    /\ ~inst.needsRender

\* In standalone mode the set flag of a ready instance has a refresh
\* callback pending; with an orchestrator the participant is registered.
FramePending ==
    ReadyAndDirty =>
        IF inst.orchestrator THEN orch.registered
        ELSE pending.raf = 1 /\ inst.standaloneRafId

C32_NothingAfterDispose ==
    (inst.source = "part_003" /\ tally.disposes >= 1) =>
        ~ilast.encoded /\ ~ilast.submitted

\* The orchestrator, still holding the participant of a disposed instance
\* that a stale resize timer has marked dirty, has called encode().
C32_Witness ==
    /\ tally.disposes >= 1
    /\ ilast.op = "encode"
    /\ ilast.before.disposed
    /\ ilast.before.needsRender

(***************************************************************************)
(* Claims about the registry's device request and its change handler,      *)
(* checked under Spec.                                                     *)
(***************************************************************************)
\* C35: when configureDevice is called while an earlier call is suspended
\* at an await, only one device is requested and a GpuContext that has
\* been established is never replaced by a second one.
C35_SingleContext ==
    /\ calls.device <= 1
    /\ Initialized(context) => calls.device = 0
    /\ last.created => last.before = NoContext

\* C36: a capability change that arrives before the device has been
\* acquired is ignored: it raises no error, invokes no subscriber,
\* reconfigures no surface and leaves the registry's context, subscribers
\* and surfaces as they were.
C36_ChangeBeforeDevice ==
    [][(last'.op = "change" /\ context = NoContext) =>
          /\ ~last'.threw
          /\ log' = <<>>
          /\ UNCHANGED <<context, listeners, canvases>>]_vars

\* C39: in both scheduling modes the dirty flag is cleared only by a step
\* that encoded the compute and the display pass: a refresh callback or an
\* encode() call of the participant that finds a pipeline, a bind group or
\* a buffer missing leaves the flag set.
C39_ClearedOnlyWhenEncoded ==
    (/\ inst.source = "part_003"
     /\ ilast.op \in {"standaloneFrame", "encode"}
     /\ ilast.before.needsRender
     /\ ~ilast.before.disposed
     /\ ~inst.needsRender) => ilast.encoded

\* The older instance's dispose() leaves a registered participant registered.
OlderDisposeKeepsNewer ==
    (orch.older # "disposed" /\ orch'.older = "disposed" /\ orch.registered)
        => orch'.registered

\* C37: two instances of one track share an orchestrator (a remount).
\* Disposing of the older instance never removes the newer instance's
\* participant from the orchestrator, and whenever the newer instance is
\* ready and not disposed its participant is held, whichever of the older
\* instance's dispose() and the newer instance's registration came first.
C37_RemountKeepsRegistration ==
    /\ [](Ready => orch.registered)
    /\ [][OlderDisposeKeepsNewer]_vars

\* Every held canvas carries the registry's pair, every ready instance
\* targets the format of its own canvas.
OneConfiguration ==
    /\ \A canvas \in Canvases :
          canvas \in Elements(canvases) =>
             surfaces.configured[canvas] = <<context.format, context.colorSpace>>
    /\ \A callback \in Callbacks :
          surfaces.instances[callback].state = "ready" =>
             surfaces.instances[callback].target = surfaces.configured[canvasOf(callback)][1]

\* C34: as long as no configureCanvas call and no reconfiguration of a
\* canvas has failed, every canvas the registry holds is configured with
\* the registry's current (format, colorSpace), and the display pipeline of
\* every ready instance targets the format its own canvas was last
\* configured with, whatever the canvases accept.
C34_OneConfiguration == ~surfaces.failed => OneConfiguration

\* The instance of `callback`: subscribed and alive, called by the last
\* operation, holding the registry's pair, rebuilt and dirty.
Subscribed(callback) ==
    /\ callback \in Elements(listeners)
    /\ surfaces.instances[callback].state \in {"loading", "ready"}

Notified(callback) ==
    \E i \in 1..Len(log) : log[i].type = "callback" /\ log[i].who = callback

CachedCurrent(callback) ==
    /\ surfaces.instances[callback].canvasFormat = context.format
    /\ surfaces.instances[callback].canvasColorSpace = context.colorSpace

RebuiltAndDirty(callback) ==
    /\ surfaces.instances[callback].target = context.format
    /\ surfaces.instances[callback].needsRender

\* C33: an instance that is subscribed and not disposed has cached the
\* registry's current format and colour space, and when the registry's last
\* operation notified it, its display pipeline targets that format and its
\* dirty flag is set.
C33_CachedFormatCurrent ==
    \A callback \in Callbacks :
       Subscribed(callback) =>
          /\ CachedCurrent(callback)
          /\ Notified(callback) => RebuiltAndDirty(callback)

\* The last step encoded a frame; the bound buffers are alive; they hold
\* what the instance and its canvas are now.
Encoding ==
    /\ inst.source = "part_003"
    /\ ilast.op \in {"standaloneFrame", "encode"}
    /\ ilast.encoded

BoundLive ==
    \A buffer \in {gpuData.bound.waveformData, gpuData.bound.backgroundData,
                   gpuData.bound.params, gpuData.bound.channelLayout,
                   gpuData.bound.computeOutput} :
       buffer # 0 /\ gpuBuffers[buffer] = 0

BoundConsistent ==
    LET count  == inst.channelCount
        canvas == gpuData.canvas
        held   == gpuData.bound
    IN  /\ gpuData.buffers[held.params] =
              BufferData("params", count, canvas.width, canvas.height, 0)
        /\ gpuData.buffers[held.channelLayout].kind = "channelLayout"
        /\ Floats(gpuData.buffers[held.channelLayout]) =
              layoutData(computeChannelLayout(canvas.height, count), count)
        /\ gpuData.buffers[held.computeOutput].kind = "computeOutput"
        /\ gpuData.buffers[held.computeOutput].entries = canvas.width * canvas.height

\* C38: whenever the instance encodes a frame, the buffers its bind groups
\* hold are not destroyed, the params buffer holds the canvas width, the
\* canvas height and the channel count of that moment, the layout buffer
\* holds the floats of computeChannelLayout(height, channelCount) for them,
\* and the output buffer has width * height entries.
C38_BoundBuffersConsistent == Encoding => BoundLive /\ BoundConsistent

\* A frame is encoded for sixteen channels on a canvas of seven rows (five
\* CSS pixels at a device pixel ratio of 1.5), with an output buffer that
\* was created after at least two rebuilds.
C38_Witness ==
    /\ Encoding
    /\ inst.channelCount = 16
    /\ gpuData.canvas.height = 7
    /\ gpuData.bound.computeOutput >= 8

====
